---- MODULE Spec2Model ----
(***************************************************************************)
(* Model of the crawler pipeline of event-pool-services:                   *)
(*   - the Event Upsert Protocol (processPrice of the Binance, Bybit and   *)
(*     OKX adapters, processGame of the NBA adapter) running as database   *)
(*     transactions over the shared tables;                                *)
(*   - the WebSocket stream lifecycle of the exchange adapters             *)
(*     (StartWebSocketStream / StopWebSocketStream / runWebSocketStream /  *)
(*     connectAndSubscribe) and the Crawler supervisor.                    *)
(***************************************************************************)
EXTENDS Integers, Sequences, FiniteSets, TLC

(***************************************************************************)
(* Bounds of the model.                                                    *)
(***************************************************************************)
NumWorkers == 2
MaxGuid == 7
MaxLoops == 2
MaxStarts == 2
MaxLateIterations == 2
MaxIdleStops == 1
MaxFrames == 2
MaxApiEvents == 1

Workers == 1..NumWorkers

\* The sync calls: one of a direct caller or of the NBA goroutine of the n-th
\* Start (n), one of the Binance goroutine of the n-th Start (MaxStarts + n).
Syncs == 1..(MaxStarts + MaxStarts)

\* The transaction of the HTTP API's CreateEvent handler.
ApiTx == NumWorkers + MaxLoops + MaxStarts + MaxStarts + 1

\* The callers of DB.Transaction: the concurrent workers, the stream
\* goroutines of an adapter, the sync calls, and the API handler.
Transactions == Workers \cup (1..MaxLoops) \cup Syncs \cup {ApiTx}

(***************************************************************************)
(* Values.                                                                 *)
(***************************************************************************)
Nil == "<nil>"

CryptoAdapters == {"BINANCE", "BYBIT", "OKX"}
Adapters == CryptoAdapters \cup {"NBA"}
ConcAdapters == {"BINANCE"}

Symbols == {"BTCUSDT"}
Prices == {"65000.50", "50000.12"}
Dates == <<"2024-06-01", "2024-06-02">>

GameIds == {"game123"}
Statuses == {"scheduled", "inprogress", "closed", "postponed"}
HomeTeam == [id |-> "team-home", name |-> "Lakers", alias |-> "LAL"]
AwayTeam == [id |-> "team-away", name |-> "Celtics", alias |-> "BOS"]

DefaultLanguage == "lang-default"
NBAEcosystemGuid == "eco-NBA"

VARIABLES
  db,        \* the committed tables of the relational store
  today,     \* index into Dates: the day time.Now() falls on
  tx,        \* per worker: the upsert transaction it is executing
  outcome,   \* per worker: result of its last Transaction call
  lastPeriod, \* per worker: <<code, guid>> its last successful ensureEventPeriod returned
  ws,        \* per exchange adapter: wsRunning, wsStopCh, wsConn and its stream goroutines
  cancelled, \* the context handed to StartWebSocketStream by API callers is cancelled
  panicked,  \* the process died of a runtime panic
  sup,       \* the Crawler supervisor: its goroutines and pollers
  driven,     \* the feed the callers exercise: an exchange adapter's stream, "REST" or "NBA"
  wire,  \* the frame bytes handed to an adapter's handleWebSocketMessage, not yet decoded
  vcm  \* the VerificationCodeManager: its codes map and the VerifyCode calls in progress

uvars == <<db, today, tx, outcome, lastPeriod>>
svars == <<ws, cancelled, panicked, sup, driven, wire, vcm>>
vars == <<db, today, tx, outcome, lastPeriod, ws, cancelled, panicked, sup, driven, wire, vcm>>

(***************************************************************************)
(* Conversions.                                                            *)
(***************************************************************************)
Digit(d) ==
  CASE d = 0 -> "0" [] d = 1 -> "1" [] d = 2 -> "2" [] d = 3 -> "3" [] d = 4 -> "4"
    [] d = 5 -> "5" [] d = 6 -> "6" [] d = 7 -> "7" [] d = 8 -> "8" [] d = 9 -> "9"

RECURSIVE Itoa(_)
Itoa(n) ==
  IF n < 0 THEN "-" \o Itoa(0 - n)
  ELSE IF n < 10 THEN Digit(n)
  ELSE Itoa(n \div 10) \o Digit(n % 10)

Guid(n) == "guid-" \o Itoa(n)

\* A *int of the provider payload: << >> is the nil pointer, <<n>> points to n.
GamePoints == {[home |-> << >>, away |-> << >>], [home |-> <<102>>, away |-> <<98>>]}

(***************************************************************************)
(* The relational store: committed tables, and the writes of a running     *)
(* transaction, which are visible to its own statements only and reach     *)
(* the committed tables when the transaction commits.                      *)
(***************************************************************************)
EmptyDB ==
  [event |-> {}, eventLanguage |-> {}, eventPeriod |-> {},
   teamGroup |-> {}, teamGroupLanguage |-> {}]

Insert(table, row) == [kind |-> "insert", table |-> table, row |-> row]
Update(table, guid, set) == [kind |-> "update", table |-> table, guid |-> guid, set |-> set]

Patch(r, op) ==
  IF r.guid = op.guid
  THEN [f \in DOMAIN r |-> IF f \in DOMAIN op.set THEN op.set[f] ELSE r[f]]
  ELSE r

ApplyOp(d, op) ==
  IF op.kind = "insert"
  THEN [d EXCEPT ![op.table] = @ \cup {op.row}]
  ELSE [d EXCEPT ![op.table] = {Patch(r, op) : r \in @}]

RECURSIVE ApplyAll(_, _)
ApplyAll(d, ops) ==
  IF ops = << >> THEN d ELSE ApplyAll(ApplyOp(d, Head(ops)), Tail(ops))

\* What the statements of worker w's transaction read.
View(w) == ApplyAll(db, tx[w].writes)

Tables == {"event", "eventLanguage", "eventPeriod", "teamGroup", "teamGroupLanguage"}

\* The guids something still holds: committed rows, rows written by running
\* transactions, and guids that ensureEventPeriod returned to a caller.
UsedGuids ==
  {r.guid : r \in UNION {db[t] : t \in Tables}}
    \cup UNION {{tx[w].writes[i].row.guid :
                   i \in {j \in 1..Len(tx[w].writes) : tx[w].writes[j].kind = "insert"}} :
                w \in Transactions}
    \cup {lastPeriod[w][2] : w \in Transactions}

FreeGuidNumbers == {n \in 1..MaxGuid : Guid(n) \notin UsedGuids}

\* The store's guid default (uuid_generate_v4): a value different from every
\* guid generated before that anything still refers to.
FreshGuid == Guid(CHOOSE n \in FreeGuidNumbers : \A m \in FreeGuidNumbers : n <= m)

(***************************************************************************)
(* What each adapter derives from its input.                               *)
(***************************************************************************)
CategoryGUID(a) == IF a = "NBA" THEN "cat-SPORT" ELSE "cat-CRYPTO"
EcosystemGUID(a) == "eco-" \o a

\* externalID of processPrice / game.ID of processGame
ExternalID(a, in) ==
  IF a = "NBA" THEN in.id ELSE a \o "_" \o in.symbol

\* periodCode of processPrice / the gameID handed to ensureEventPeriod
PeriodCode(a, in, dateCode) ==
  CASE a = "BINANCE" -> "CRYPTO_BINANCE__" \o dateCode
    [] a = "BYBIT"   -> "CRYPTO_BYBIY_" \o dateCode
    [] a = "OKX"     -> "CRYPTO_" \o dateCode
    [] a = "NBA"     -> in.id

EventTitle(a, in) ==
  IF a = "NBA" THEN in.home.name \o " vs " \o in.away.name
  ELSE in.symbol \o " Price"

ExchangeName(a) ==
  CASE a = "BINANCE" -> "Binance" [] a = "BYBIT" -> "Bybit" [] a = "OKX" -> "OKX"

EventRules(a, in) ==
  "Real-time price tracking for " \o in.symbol \o " on " \o ExchangeName(a)

\* determineGameStatus with the default branch giving the "inprogress" result.
determineGameStatusDefaultLive(status) ==
  CASE status = "scheduled"  -> [isLive |-> 1, stage |-> "Q1"]
    [] status = "inprogress" -> [isLive |-> 0, stage |-> "Q1"]
    [] status = "closed"     -> [isLive |-> 2, stage |-> "FT"]
    [] OTHER                 -> [isLive |-> 0, stage |-> "Q1"]

\* NBACrawler.determineGameStatus: (isLive, stage) of a provider status.
determineGameStatus(status) ==
  CASE status = "scheduled"  -> [isLive |-> 1, stage |-> "Q1"]
    [] status = "inprogress" -> [isLive |-> 0, stage |-> "Q1"]
    [] status = "closed"     -> [isLive |-> 2, stage |-> "FT"]
    [] OTHER                 -> [isLive |-> 1, stage |-> "Q1"]

\* homeScore / awayScore of processGame
Score(points) == IF points = << >> THEN "0" ELSE Itoa(points[1])

\* EventUpdates as a full-row write: the flags of a row built for a crypto
\* event are written along with the fields of the tick.
EventUpdatesFullRow(a, in, periodGuid, homeGuid, awayGuid) ==
  [price |-> IF a = "NBA" THEN "0" ELSE in.price,
   mainScore |-> IF a = "NBA" THEN Score(in.homePoints) ELSE "0",
   clusterScore |-> IF a = "NBA" THEN Score(in.awayPoints) ELSE "0",
   isLive |-> IF a = "NBA" THEN determineGameStatus(in.status).isLive ELSE 0,
   stage |-> IF a = "NBA" THEN determineGameStatus(in.status).stage ELSE "LIVE",
   mainTeamGroupGuid |-> IF a = "NBA" THEN homeGuid ELSE "0",
   clusterTeamGroupGuid |-> IF a = "NBA" THEN awayGuid ELSE "0",
   eventPeriodGuid |-> periodGuid,
   isOnline |-> TRUE,
   isSports |-> FALSE]

\* The updates map handed to UpdateEventFields on the update path.
EventUpdates(a, in, periodGuid, homeGuid, awayGuid) ==
  IF a = "NBA"
  THEN LET st == determineGameStatus(in.status)
           base == [mainScore |-> Score(in.homePoints),
                    clusterScore |-> Score(in.awayPoints),
                    isLive |-> st.isLive,
                    stage |-> st.stage,
                    mainTeamGroupGuid |-> homeGuid,
                    clusterTeamGroupGuid |-> awayGuid,
                    eventPeriodGuid |-> periodGuid]
       IN IF in.status = "closed"
          THEN [f \in DOMAIN base \cup {"isOnline"} |->
                  IF f = "isLive" THEN 2
                  ELSE IF f = "isOnline" THEN TRUE
                  ELSE base[f]]
          ELSE base
  ELSE [price |-> in.price,
        mainScore |-> "0",
        clusterScore |-> "0",
        isLive |-> 0,
        stage |-> "LIVE",
        eventPeriodGuid |-> periodGuid]

\* The Event row CreateEvent stores on the create path.  The crypto adapters
\* hand over IsSports: false; gorm's Create writes the column default in place
\* of a zero value, and is_sports is tagged default:true, so the row stored
\* has is_sports true for every adapter.
NewEvent(guid, a, in, periodGuid, homeGuid, awayGuid) ==
  IF a = "NBA"
  THEN LET st == determineGameStatus(in.status)
       IN [guid |-> guid,
           categoryGuid |-> CategoryGUID(a),
           ecosystemGuid |-> EcosystemGUID(a),
           eventPeriodGuid |-> periodGuid,
           mainTeamGroupGuid |-> homeGuid,
           clusterTeamGroupGuid |-> awayGuid,
           externalId |-> ExternalID(a, in),
           mainScore |-> Score(in.homePoints),
           clusterScore |-> Score(in.awayPoints),
           price |-> "0",
           isOnline |-> FALSE,
           isLive |-> st.isLive,
           isSports |-> TRUE,
           stage |-> st.stage]
  ELSE [guid |-> guid,
        categoryGuid |-> CategoryGUID(a),
        ecosystemGuid |-> EcosystemGUID(a),
        eventPeriodGuid |-> periodGuid,
        mainTeamGroupGuid |-> "0",
        clusterTeamGroupGuid |-> "0",
        externalId |-> ExternalID(a, in),
        mainScore |-> "0",
        clusterScore |-> "0",
        price |-> in.price,
        isOnline |-> TRUE,
        isLive |-> 0,
        isSports |-> TRUE,
        stage |-> "LIVE"]

\* The inputs an adapter can hand to its upsert.
Inputs(a) ==
  IF a = "NBA"
  THEN {[id |-> g, status |-> st, homePoints |-> pts.home, awayPoints |-> pts.away,
         home |-> HomeTeam, away |-> AwayTeam] :
          g \in GameIds, st \in Statuses, pts \in GamePoints}
  ELSE [symbol : Symbols, price : Prices]

(***************************************************************************)
(* Transactions.                                                           *)
(***************************************************************************)
IdleTx ==
  [pc |-> "idle", adapter |-> Nil, input |-> [symbol |-> Nil, price |-> Nil],
   periodCode |-> Nil, existing |-> Nil, periodGuid |-> Nil,
   side |-> Nil, homeGuid |-> Nil, awayGuid |-> Nil,
   created |-> Nil, lang |-> Nil, writes |-> << >>, failed |-> FALSE]

At(w, pc) == tx[w].pc = pc

\* DB.Transaction: fn returned an error, the transaction is rolled back.
Rollback(w) ==
  /\ tx' = [tx EXCEPT ![w] = IdleTx]
  /\ outcome' = [outcome EXCEPT ![w] = "error"]
  /\ UNCHANGED <<db, today, lastPeriod, svars>>

\* A statement of the transaction returned; t is the transaction after it.
Continue(w, t) ==
  /\ tx' = [tx EXCEPT ![w] = t]
  /\ UNCHANGED <<db, today, outcome, svars>>

\* The transaction of adapter a's upsert of input in, at its first statement.
BeginTx(a, in) ==
  [IdleTx EXCEPT !.pc = IF a = "NBA" THEN "getEcosystem" ELSE "getEvent",
                 !.adapter = a,
                 !.input = in,
                 !.side = IF a = "NBA" THEN "home" ELSE Nil]

\* DB.Transaction(fn): open the transaction and enter fn.
Begin(w, a, in) ==
  /\ At(w, "idle")
  /\ tx' = [tx EXCEPT ![w] = BeginTx(a, in)]
  /\ UNCHANGED <<db, today, outcome, lastPeriod, svars>>

(***************************************************************************)
(* NBACrawler.ensureTeam, once for game.Home and once for game.Away.       *)
(***************************************************************************)
Team(t) == IF t.side = "home" THEN t.input.home ELSE t.input.away

\* ensureTeam returned guid g for the current side.
TeamResolved(t, g) ==
  IF t.side = "home"
  THEN [t EXCEPT !.homeGuid = g, !.side = "away", !.pc = "getEcosystem"]
  ELSE [t EXCEPT !.awayGuid = g, !.side = Nil, !.pc = "getEvent"]

\* c.db.Ecosystem.GetEcosystemByCode("NBA"): read outside the transaction.
GetEcosystemByCode(w, ok) ==
  /\ At(w, "getEcosystem")
  /\ UNCHANGED lastPeriod
  /\ IF ok THEN Continue(w, [tx[w] EXCEPT !.pc = "getTeam"]) ELSE Rollback(w)

GetTeamGroupByExternalId(w, ok) ==
  /\ At(w, "getTeam")
  /\ UNCHANGED lastPeriod
  /\ IF ~ok THEN Rollback(w)
     ELSE LET t == tx[w]
              found == {r \in View(w).teamGroup :
                          /\ r.externalId = Team(t).id
                          /\ r.ecosystemGuid = NBAEcosystemGuid}
          IN IF found = {}
             THEN Continue(w, [t EXCEPT !.pc = "createTeam"])
             ELSE \E r \in found : Continue(w, TeamResolved(t, r.guid))

CreateTeamGroup(w, ok) ==
  /\ At(w, "createTeam")
  /\ UNCHANGED lastPeriod
  /\ IF ~ok THEN Rollback(w)
     ELSE /\ FreeGuidNumbers # {}
          /\ LET t == tx[w]
                  row == [guid |-> FreshGuid,
                          ecosystemGuid |-> NBAEcosystemGuid,
                          externalId |-> Team(t).id]
             IN Continue(w, [t EXCEPT !.created = row.guid,
                                      !.writes = Append(@, Insert("teamGroup", row)),
                                      !.pc = "rereadTeam"])

GetTeamGroupByGUID(w, ok) ==
  /\ At(w, "rereadTeam")
  /\ UNCHANGED lastPeriod
  /\ LET t == tx[w]
         found == {r \in View(w).teamGroup : r.guid = t.created}
     IN IF ~ok \/ found = {} THEN Rollback(w)
        ELSE Continue(w, [t EXCEPT !.pc = "createTeamLang"])

CreateTeamGroupLanguage(w, ok) ==
  /\ At(w, "createTeamLang")
  /\ UNCHANGED lastPeriod
  /\ IF ~ok THEN Rollback(w)
     ELSE /\ FreeGuidNumbers # {}
          /\ LET t == tx[w]
                  row == [guid |-> FreshGuid,
                          teamGroupGuid |-> t.created,
                          languageGuid |-> DefaultLanguage,
                          alias |-> Team(t).alias,
                          name |-> Team(t).name]
             IN Continue(w, [TeamResolved(t, t.created) EXCEPT
                               !.writes = Append(@, Insert("teamGroupLanguage", row))])

(***************************************************************************)
(* processPrice / processGame: Event lookup and EventPeriod resolution.    *)
(***************************************************************************)
EventsByExternalID(d, externalID) == {r \in d.event : r.externalId = externalID}

\* txDB.Event.GetEventByExternalID at the head of the upsert; the period
\* code is formatted from time.Now() right after it.
GetEventByExternalID(w, ok) ==
  /\ At(w, "getEvent")
  /\ UNCHANGED lastPeriod
  /\ IF ~ok THEN Rollback(w)
     ELSE LET t == tx[w]
              found == EventsByExternalID(View(w), ExternalID(t.adapter, t.input))
              code == PeriodCode(t.adapter, t.input, Dates[today])
          IN IF found = {}
             THEN Continue(w, [t EXCEPT !.existing = Nil, !.periodCode = code,
                                        !.pc = "getPeriod"])
             ELSE \E r \in found :
                    Continue(w, [t EXCEPT !.existing = r.guid, !.periodCode = code,
                                          !.pc = "getPeriod"])

\* UpsertBranch without the lookup result: every upsert inserts.
UpsertBranchAlwaysCreate(existing) == "createEvent"

\* The branch taken at "if existingEvent != nil".
UpsertBranch(existing) == IF existing # Nil THEN "updateEvent" ELSE "createEvent"

\* ensureEventPeriod returned guid g.
PeriodResolved(w, g) ==
  /\ lastPeriod' = [lastPeriod EXCEPT ![w] = <<tx[w].periodCode, g>>]
  /\ Continue(w, [tx[w] EXCEPT !.periodGuid = g, !.pc = UpsertBranch(tx[w].existing)])

\* First txDB.EventPeriod.GetEventPeriodByCode of ensureEventPeriod.
GetEventPeriodByCode(w, ok) ==
  /\ At(w, "getPeriod")
  /\ IF ~ok THEN Rollback(w) /\ UNCHANGED lastPeriod
     ELSE LET found == {r \in View(w).eventPeriod : r.code = tx[w].periodCode}
          IN IF found = {}
             THEN /\ Continue(w, [tx[w] EXCEPT !.pc = "createPeriod"])
                  /\ UNCHANGED lastPeriod
             ELSE \E r \in found : PeriodResolved(w, r.guid)

\* UniquePeriodViolation without the unique index on event_period(code).
NoUniquePeriodIndex(code) == FALSE

\* uq_event_period_code: a committed row with the code makes the insert fail.
UniquePeriodViolation(code) == \E r \in db.eventPeriod : r.code = code

\* uq_event_period_code: an insert waits while another running transaction
\* holds an uncommitted row with the same code.
PeriodInsertBlocked(w, code) ==
  \E o \in Transactions \ {w} :
    \E i \in 1..Len(tx[o].writes) :
      /\ tx[o].writes[i].kind = "insert"
      /\ tx[o].writes[i].table = "eventPeriod"
      /\ tx[o].writes[i].row.code = code

\* txDB.EventPeriod.CreateEventPeriod
CreateEventPeriod(w, ok) ==
  /\ At(w, "createPeriod")
  /\ UNCHANGED lastPeriod
  /\ ~PeriodInsertBlocked(w, tx[w].periodCode)
  /\ IF ~ok \/ UniquePeriodViolation(tx[w].periodCode)
     THEN Rollback(w)
     ELSE /\ FreeGuidNumbers # {}
          /\ LET row == [guid |-> FreshGuid, code |-> tx[w].periodCode]
             IN Continue(w, [tx[w] EXCEPT !.writes = Append(@, Insert("eventPeriod", row)),
                                          !.pc = "rereadPeriod"])

\* Second GetEventPeriodByCode of ensureEventPeriod: re-read the created row.
RereadEventPeriod(w, ok) ==
  /\ At(w, "rereadPeriod")
  /\ LET found == {r \in View(w).eventPeriod : r.code = tx[w].periodCode}
     IN IF ~ok \/ found = {}
        THEN Rollback(w) /\ UNCHANGED lastPeriod
        ELSE \E r \in found : PeriodResolved(w, r.guid)

(***************************************************************************)
(* Update path.                                                            *)
(***************************************************************************)
\* txDB.Event.UpdateEventFields(existingEvent.GUID, updates)
UpdateEventFields(w, ok) ==
  /\ At(w, "updateEvent")
  /\ UNCHANGED lastPeriod
  /\ IF ~ok THEN Rollback(w)
     ELSE LET t == tx[w]
              set == EventUpdates(t.adapter, t.input, t.periodGuid, t.homeGuid, t.awayGuid)
          IN Continue(w, [t EXCEPT !.writes = Append(@, Update("event", t.existing, set)),
                                   !.pc = "getLang"])

\* updateEventLanguage returned an error: the caller logs it and goes on.
LanguageErrorLogged(w) ==
  Continue(w, [tx[w] EXCEPT !.failed = TRUE, !.pc = "commit"])

\* txDB.Event.GetEventLanguage of updateEventLanguage
GetEventLanguage(w, ok) ==
  /\ At(w, "getLang")
  /\ UNCHANGED lastPeriod
  /\ IF ~ok THEN LanguageErrorLogged(w)
     ELSE LET t == tx[w]
              found == {r \in View(w).eventLanguage :
                          r.eventGuid = t.existing /\ r.languageGuid = DefaultLanguage}
          IN IF found = {}
             THEN Continue(w, [t EXCEPT !.pc = "insertLang"])
             ELSE \E r \in found :
                    Continue(w, [t EXCEPT !.lang = r.guid, !.pc = "updateLang"])

\* txDB.Event.UpdateEventLanguage of updateEventLanguage
UpdateEventLanguage(w, ok) ==
  /\ At(w, "updateLang")
  /\ UNCHANGED lastPeriod
  /\ IF ~ok THEN LanguageErrorLogged(w)
     ELSE LET t == tx[w]
              set == [title |-> EventTitle(t.adapter, t.input)]
          IN Continue(w, [t EXCEPT !.writes = Append(@, Update("eventLanguage", t.lang, set)),
                                   !.pc = "commit"])

\* txDB.Event.CreateEventLanguage of updateEventLanguage (no row yet)
InsertEventLanguage(w, ok) ==
  /\ At(w, "insertLang")
  /\ UNCHANGED lastPeriod
  /\ IF ~ok THEN LanguageErrorLogged(w)
     ELSE /\ FreeGuidNumbers # {}
          /\ LET t == tx[w]
                  row == [guid |-> FreshGuid,
                          eventGuid |-> t.existing,
                          languageGuid |-> DefaultLanguage,
                          title |-> EventTitle(t.adapter, t.input),
                          rules |-> ""]
             IN Continue(w, [t EXCEPT !.writes = Append(@, Insert("eventLanguage", row)),
                                      !.pc = "commit"])

(***************************************************************************)
(* Create path.                                                            *)
(***************************************************************************)
\* txDB.Event.CreateEvent(event)
CreateEvent(w, ok) ==
  /\ At(w, "createEvent")
  /\ UNCHANGED lastPeriod
  /\ IF ~ok THEN Rollback(w)
     ELSE /\ FreeGuidNumbers # {}
          /\ LET t == tx[w]
                  row == NewEvent(FreshGuid, t.adapter, t.input,
                                  t.periodGuid, t.homeGuid, t.awayGuid)
             IN Continue(w, [t EXCEPT !.writes = Append(@, Insert("event", row)),
                                      !.pc = "rereadEvent"])

\* Second GetEventByExternalID: re-read the created row for its guid.  The
\* NBA create path ends here, the crypto adapters go on to the language row.
RereadEvent(w, ok) ==
  /\ At(w, "rereadEvent")
  /\ UNCHANGED lastPeriod
  /\ LET t == tx[w]
         found == EventsByExternalID(View(w), ExternalID(t.adapter, t.input))
     IN IF ~ok \/ found = {} THEN Rollback(w)
        ELSE \E r \in found :
               Continue(w, [t EXCEPT !.created = r.guid,
                                     !.pc = IF t.adapter = "NBA" THEN "commit"
                                            ELSE "createLang"])

\* txDB.Event.CreateEventLanguage(eventLang) of the create path
CreateEventLanguage(w, ok) ==
  /\ At(w, "createLang")
  /\ UNCHANGED lastPeriod
  /\ IF ~ok THEN Rollback(w)
     ELSE /\ FreeGuidNumbers # {}
          /\ LET t == tx[w]
                  row == [guid |-> FreshGuid,
                          eventGuid |-> t.created,
                          languageGuid |-> DefaultLanguage,
                          title |-> EventTitle(t.adapter, t.input),
                          rules |-> EventRules(t.adapter, t.input)]
             IN Continue(w, [t EXCEPT !.writes = Append(@, Insert("eventLanguage", row)),
                                      !.pc = "commit"])

(***************************************************************************)
(* fn returned nil: DB.Transaction commits.                                *)
(***************************************************************************)
\* Commit with only the Event rows of the transaction reaching the store.
CommitEventsOnly(w, ok) ==
  /\ At(w, "commit")
  /\ UNCHANGED <<lastPeriod, today>>
  /\ IF ~ok THEN Rollback(w)
     ELSE /\ db' = [db EXCEPT !.event = View(w).event]
          /\ UNCHANGED svars
          /\ tx' = [tx EXCEPT ![w] = IdleTx]
          /\ outcome' = [outcome EXCEPT ![w] = "ok"]

Commit(w, ok) ==
  /\ At(w, "commit")
  /\ UNCHANGED <<lastPeriod, today>>
  /\ IF ~ok THEN Rollback(w)
     ELSE /\ db' = View(w)
          /\ UNCHANGED svars
          /\ tx' = [tx EXCEPT ![w] = IdleTx]
          /\ outcome' = [outcome EXCEPT ![w] = "ok"]

(***************************************************************************)
(* The writer of the HTTP API: HandlerSvc.CreateEvent, POST handler of the *)
(* events route.                                                           *)
(***************************************************************************)
\* The Event rows the API created: its Event has no external id, and Create
\* writes the column default '0'.
ApiEvents(d) == {r \in d.event : r.externalId = "0"}

\* The guid the store generates for the n-th row the API inserts in a table.
ApiGuid(table, n) == "guid-" \o table \o "-" \o Itoa(n)

\* The bodies of the requests that pass validateCreateEventNewRequest: a
\* request for an event that is no sports event and names no teams.
CreateEventRequests ==
  [categoryGuid : {"cat-CRYPTO"}, ecosystemGuid : {"eco-BINANCE"},
   eventPeriodGuid : {Guid(1)},
   mainTeamGroupGuid : {""}, clusterTeamGroupGuid : {""},
   languageGuid : {DefaultLanguage}, title : {"BTC above 70000"}, rules : {""},
   isSports : {FALSE}]

\* The Event row of the request as Create stores it: a zero value is
\* replaced by the column default.
RequestedEvent(guid, req) ==
  [guid |-> guid,
   categoryGuid |-> req.categoryGuid,
   ecosystemGuid |-> req.ecosystemGuid,
   eventPeriodGuid |-> req.eventPeriodGuid,
   mainTeamGroupGuid |-> IF req.mainTeamGroupGuid = "" THEN "0" ELSE req.mainTeamGroupGuid,
   clusterTeamGroupGuid |-> IF req.clusterTeamGroupGuid = "" THEN "0"
                            ELSE req.clusterTeamGroupGuid,
   externalId |-> "0",
   mainScore |-> "0",
   clusterScore |-> "0",
   price |-> "0",
   isOnline |-> FALSE,
   isLive |-> 1,
   isSports |-> IF req.isSports = FALSE THEN TRUE ELSE req.isSports,
   stage |-> "Q1"]

\* HandlerSvc.CreateEvent is called: the request is validated and
\* h.db.Transaction opens the transaction.  A request that fails validation
\* ends the call with an error.  The calls are bounded: those that left an
\* Event, and the last one when it failed.
HandlerSvcCreateEvent(req, ok) ==
  /\ At(ApiTx, "idle")
  /\ Cardinality(ApiEvents(db)) + (IF outcome[ApiTx] = "error" THEN 1 ELSE 0)
       < MaxApiEvents
  /\ IF ok
     THEN /\ tx' = [tx EXCEPT ![ApiTx] =
                     [IdleTx EXCEPT !.pc = "createRequested",
                                    !.adapter = "API",
                                    !.input = req]]
          /\ outcome' = outcome
     ELSE /\ tx' = tx
          /\ outcome' = [outcome EXCEPT ![ApiTx] = "error"]
  /\ UNCHANGED <<db, today, lastPeriod, svars>>

\* repo.CreateEvent(db, event) of HandlerSvc.CreateEvent: the Event is
\* stored with the guids the request names, as they come, and the struct
\* receives the guid the store generated.
EventRepositoryCreateEvent(ok) ==
  /\ At(ApiTx, "createRequested")
  /\ UNCHANGED lastPeriod
  /\ IF ~ok THEN Rollback(ApiTx)
     ELSE LET t == tx[ApiTx]
              n == Cardinality(ApiEvents(db)) + 1
              event == RequestedEvent(ApiGuid("event", n), t.input)
          IN Continue(ApiTx, [t EXCEPT !.created = event.guid,
                                       !.writes = Append(@, Insert("event", event)),
                                       !.pc = "rereadCreated"])

\* The re-read of HandlerSvc.CreateEvent: First(event) on the struct Create
\* filled reads the row with the request's category, ecosystem and period
\* and with the guid the struct holds.
RereadCreatedEvent(ok) ==
  /\ At(ApiTx, "rereadCreated")
  /\ UNCHANGED lastPeriod
  /\ LET t == tx[ApiTx]
         found == {r \in View(ApiTx).event :
                     /\ r.categoryGuid = t.input.categoryGuid
                     /\ r.ecosystemGuid = t.input.ecosystemGuid
                     /\ r.eventPeriodGuid = t.input.eventPeriodGuid
                     /\ r.guid = t.created}
     IN IF ~ok \/ found = {} THEN Rollback(ApiTx)
        ELSE \E r \in found :
               Continue(ApiTx, [t EXCEPT !.existing = r.guid,
                                        !.pc = "createRequestedLang"])

\* repo.CreateEventLanguage(db, eventLang) of HandlerSvc.CreateEvent: the
\* EventLanguage row of the request, for the guid read.
EventRepositoryCreateEventLanguage(ok) ==
  /\ At(ApiTx, "createRequestedLang")
  /\ UNCHANGED lastPeriod
  /\ IF ~ok THEN Rollback(ApiTx)
     ELSE LET t == tx[ApiTx]
              n == Cardinality(ApiEvents(db)) + 1
              row == [guid |-> ApiGuid("language", n),
                      eventGuid |-> t.existing,
                      languageGuid |-> t.input.languageGuid,
                      title |-> t.input.title,
                      rules |-> t.input.rules]
          IN Continue(ApiTx, [t EXCEPT !.writes = Append(@, Insert("eventLanguage", row)),
                                       !.pc = "commit"])

\* The rest of HandlerSvc.CreateEvent: the sub-events and their directions
\* are written to tables this model does not hold, fn returns and
\* DB.Transaction commits; a statement that fails rolls everything back.
HandlerSvcCreateEventReturns(ok) == Commit(ApiTx, ok)

(***************************************************************************)
(* The writers of the database package that no code of the repository      *)
(* calls: Updates with a struct writes its non-zero fields to the rows     *)
(* with the struct's guid, Delete removes the rows with the guid.  Each is *)
(* a statement of its own, outside a transaction.                          *)
(***************************************************************************)
\* The zero value of the Go type of column f.
ZeroValue(f) ==
  IF f \in {"isOnline", "isSports"} THEN FALSE
  ELSE IF f = "isLive" THEN 0
  ELSE ""

\* gorm's Model(&T{}).Where("guid = ?", s.guid).Updates(s) on a row r.
Updates(r, s) ==
  IF r.guid # s.guid THEN r
  ELSE [f \in DOMAIN r |->
          IF f \in DOMAIN s /\ s[f] # ZeroValue(f) THEN s[f] ELSE r[f]]

\* The store after the statement Updates(s) on a table.
UpdatesWhereGuid(table, s, ok) ==
  /\ db' = IF ok THEN [db EXCEPT ![table] = {Updates(r, s) : r \in @}] ELSE db
  /\ UNCHANGED <<today, tx, outcome, lastPeriod, svars>>

\* The store after the statement Where("guid = ?", guid).Delete(&T{}).
DeleteWhereGuid(table, guid, ok) ==
  /\ db' = IF ok THEN [db EXCEPT ![table] = {r \in @ : r.guid # guid}] ELSE db
  /\ UNCHANGED <<today, tx, outcome, lastPeriod, svars>>

\* The guids a caller can name: those of the stored rows and one of no row.
NamedGuids == {Guid(n) : n \in 1..MaxGuid}

\* The structs handed to the writers; a field left out has its zero value.
EventStructs ==
  [guid : NamedGuids, mainScore : {"", "7"}, isLive : {0, 2}, isOnline : BOOLEAN]
EventLanguageStructs == [guid : NamedGuids, title : {"", "Final"}]
TeamGroupStructs == [guid : NamedGuids, externalId : {"", "team-other"}]
TeamGroupLanguageStructs == [guid : NamedGuids, name : {"", "Bulls"}]
EventPeriodStructs == [guid : NamedGuids, code : {"", "game456"}]

UpdateEvent(event, ok) == UpdatesWhereGuid("event", event, ok)
DeleteEvent(guid, ok) == DeleteWhereGuid("event", guid, ok)
DeleteEventLanguage(guid, ok) == DeleteWhereGuid("eventLanguage", guid, ok)
UpdateTeamGroup(teamGroup, ok) == UpdatesWhereGuid("teamGroup", teamGroup, ok)
DeleteTeamGroup(guid, ok) == DeleteWhereGuid("teamGroup", guid, ok)
UpdateTeamGroupLanguage(teamGroupLang, ok) ==
  UpdatesWhereGuid("teamGroupLanguage", teamGroupLang, ok)
DeleteTeamGroupLanguage(guid, ok) == DeleteWhereGuid("teamGroupLanguage", guid, ok)
UpdateEventPeriod(eventPeriod, ok) == UpdatesWhereGuid("eventPeriod", eventPeriod, ok)
DeleteEventPeriod(guid, ok) == DeleteWhereGuid("eventPeriod", guid, ok)

\* Midnight passes: time.Now() formats to the next date code.
NextDay ==
  /\ today < Len(Dates)
  /\ today' = today + 1
  /\ UNCHANGED <<db, tx, outcome, lastPeriod, svars>>

\* One statement of NBACrawler.ensureTeam in worker w's transaction.
TeamStatement(w) ==
  \E ok \in BOOLEAN :
    \/ GetEcosystemByCode(w, ok)
    \/ GetTeamGroupByExternalId(w, ok)
    \/ CreateTeamGroup(w, ok)
    \/ GetTeamGroupByGUID(w, ok)
    \/ CreateTeamGroupLanguage(w, ok)

\* One statement of the Event upsert in worker w's transaction.
UpsertStatement(w) ==
  \E ok \in BOOLEAN :
    \/ GetEventByExternalID(w, ok)
    \/ GetEventPeriodByCode(w, ok)
    \/ CreateEventPeriod(w, ok)
    \/ RereadEventPeriod(w, ok)
    \/ UpdateEventFields(w, ok)
    \/ GetEventLanguage(w, ok)
    \/ UpdateEventLanguage(w, ok)
    \/ InsertEventLanguage(w, ok)
    \/ CreateEvent(w, ok)
    \/ RereadEvent(w, ok)
    \/ CreateEventLanguage(w, ok)
    \/ Commit(w, ok)

(***************************************************************************)
(* The wire formats of the exchanges and the decode step of                *)
(* handleWebSocketMessage.  A string the code takes apart is a sequence of *)
(* its characters; a key absent from a JSON document decodes to the zero   *)
(* value ("" or the empty sequence).                                        *)
(***************************************************************************)
RECURSIVE Join(_)
Join(cs) == IF cs = << >> THEN "" ELSE Head(cs) \o Join(Tail(cs))

\* strings.ReplaceAll(s, old, ""), old a single character.
ReplaceAll(cs, old) == SelectSeq(cs, LAMBDA c : c # old)

\* strings.HasPrefix(s, prefix)
HasPrefix(cs, prefix) == Len(cs) >= Len(prefix) /\ SubSeq(cs, 1, Len(prefix)) = prefix

\* strings.Split(s, sep), sep a single character.
RECURSIVE Split(_, _)
Split(cs, sep) ==
  IF \A i \in 1..Len(cs) : cs[i] # sep THEN <<cs>>
  ELSE LET k == CHOOSE i \in 1..Len(cs) : cs[i] = sep /\ \A j \in 1..(i - 1) : cs[j] # sep
       IN <<SubSeq(cs, 1, k - 1)>> \o Split(SubSeq(cs, k + 1, Len(cs)), sep)

\* The markets the exchanges report on, as base and quote asset.
Markets ==
  {[base |-> <<"B", "T", "C">>, quote |-> <<"U", "S", "D", "T">>],
   [base |-> <<"E", "T", "H">>, quote |-> <<"U", "S", "D", "T">>]}

\* The symbol of a market in the configuration of the adapters.
MarketSymbol(m) == Join(m.base \o m.quote)

TickersTopic == <<"t", "i", "c", "k", "e", "r", "s", ".">>

\* The layouts in which an exchange can send a ticker update.
WireLayouts(a) ==
  CASE a = "BINANCE" -> {"envelope"}
    [] a = "BYBIT"   -> {"snapshot", "topicOnly", "altKey"}
    [] a = "OKX"     -> {"data", "argOnly"}

\* The ticker update of market m at price p as exchange a sends it:
\* BinanceTickerStream, BybitTickerStream (with the keys of the generic map),
\* OKXTickerStream.
TickerMessage(a, layout, m, p) ==
  CASE a = "BINANCE" ->
         [stream |-> "ticker", data |-> [s |-> m.base \o m.quote, c |-> p]]
    [] a = "BYBIT" ->
         [topic |-> TickersTopic \o m.base \o m.quote,
          data |-> [symbol |-> IF layout = "topicOnly" THEN << >> ELSE m.base \o m.quote,
                    lastPrice |-> IF layout = "altKey" THEN "" ELSE p,
                    last_price |-> IF layout = "altKey" THEN p ELSE ""]]
    [] a = "OKX" ->
         [event |-> "",
          arg |-> [channel |-> "tickers", instId |-> m.base \o <<"-">> \o m.quote],
          data |-> <<[instId |-> IF layout = "argOnly" THEN << >>
                                 ELSE m.base \o <<"-">> \o m.quote,
                      last |-> p]>>]

\* A message of exchange a that is no ticker update: a ticker without a
\* price, a message of another topic, a pong.
ControlMessage(a) ==
  CASE a = "BINANCE" -> [stream |-> "", data |-> [s |-> << >>, c |-> ""]]
    [] a = "BYBIT"   -> [topic |-> << >>,
                         data |-> [symbol |-> << >>, lastPrice |-> "", last_price |-> ""]]
    [] a = "OKX"     -> [event |-> "pong", arg |-> [channel |-> "", instId |-> << >>],
                         data |-> << >>]

\* handleWebSocketMessage returned without calling processPrice.
NoTick == [symbol |-> Nil, price |-> Nil]

\* BinanceCrawler.handleWebSocketMessage up to the call of processPrice.
DecodeBinance(msg) ==
  IF msg.data.c = "" THEN NoTick
  ELSE [symbol |-> Join(msg.data.s), price |-> msg.data.c]

\* BybitCrawler.handleWebSocketMessage up to the call of processPrice.
DecodeBybit(msg) ==
  IF ~HasPrefix(msg.topic, TickersTopic) THEN NoTick
  ELSE LET lastPrice == IF msg.data.lastPrice # "" THEN msg.data.lastPrice
                        ELSE msg.data.last_price
           parts == Split(msg.topic, ".")
           symbol == IF msg.data.symbol # << >> THEN msg.data.symbol
                     ELSE IF Len(parts) >= 2 THEN parts[2] ELSE << >>
       IN IF lastPrice = "" \/ symbol = << >> THEN NoTick
          ELSE [symbol |-> Join(symbol), price |-> lastPrice]

\* DecodeOKX with the instId passed on as it is.
DecodeOKXKeepDash(msg) ==
  IF msg.event \in {"pong", "subscribe", "unsubscribe", "error"} THEN NoTick
  ELSE IF msg.arg.channel # "tickers" \/ msg.data = << >> THEN NoTick
  ELSE IF msg.data[1].last = "" THEN NoTick
  ELSE [symbol |-> Join(IF msg.data[1].instId = << >> THEN msg.arg.instId
                        ELSE msg.data[1].instId),
        price |-> msg.data[1].last]

\* OKXCrawler.handleWebSocketMessage up to the call of processPrice.
DecodeOKX(msg) ==
  IF msg.event \in {"pong", "subscribe", "unsubscribe", "error"} THEN NoTick
  ELSE IF msg.arg.channel # "tickers" \/ msg.data = << >> THEN NoTick
  ELSE IF msg.data[1].last = "" THEN NoTick
  ELSE LET instID == IF msg.data[1].instId = << >> THEN msg.arg.instId
                     ELSE msg.data[1].instId
       IN [symbol |-> Join(ReplaceAll(instID, "-")), price |-> msg.data[1].last]

\* The decode step of adapter a.
Decode(a, msg) ==
  CASE a = "BINANCE" -> DecodeBinance(msg)
    [] a = "BYBIT"   -> DecodeBybit(msg)
    [] a = "OKX"     -> DecodeOKX(msg)

\* A frame on its way through handleWebSocketMessage: the exchange that sent
\* it, its document, the market and price it reports (Nil for a message that
\* is no ticker update), and whether the decode step has run.
NoWire == [adapter |-> Nil, msg |-> [stream |-> "none"], symbol |-> Nil, price |-> Nil,
           decoded |-> FALSE]

\* The frames exchange a can send.
WiresOf(a) ==
  {[adapter |-> a, msg |-> TickerMessage(a, layout, m, p),
    symbol |-> MarketSymbol(m), price |-> p, decoded |-> FALSE] :
      layout \in WireLayouts(a), m \in Markets, p \in Prices}
    \cup {[adapter |-> a, msg |-> ControlMessage(a), symbol |-> Nil, price |-> Nil,
           decoded |-> FALSE]}

AllWires == UNION {WiresOf(a) : a \in CryptoAdapters}

(***************************************************************************)
(* WebSocket stream lifecycle of the exchange adapters.                    *)
(***************************************************************************)
\* time.Second; a time.Duration is counted in units of 500ns, in which every
\* delay the reconnect loop computes is a whole number.
Second == 2000000

InitialReconnectDelay == 5 * Second
maxReconnectDelay == 60 * Second

\* time.Duration(float64(reconnectDelay) * 1.5): the conversion truncates.
ScaleDelay(d) == (d * 3) \div 2

\* "if reconnectDelay < maxReconnectDelay { reconnectDelay = ... * 1.5 }"
NextReconnectDelay(d) == IF d < maxReconnectDelay THEN ScaleDelay(d) ELSE d

AlreadyRunningError == "WebSocket stream is already running"

\* A runWebSocketStream goroutine: its position, the context it was given,
\* its reconnectDelay, the connection of its connectAndSubscribe call, whether
\* the reader goroutine has put an error on errCh; the frames waiting
\* in messageCh, the number of frames read so far, the last frame handed to
\* handleWebSocketMessage and whether that call is still running; whether
\* conn.Close() was called on the connection, where the reader goroutine of
\* the connection is, and the time left until the read deadline of the
\* connection, in periods of the ping ticker.
NoFrame == [seq |-> 0, kind |-> "none"]

\* pingTicker := time.NewTicker(20 * time.Second)
PingPeriod == 20 * Second

\* conn.SetReadDeadline(time.Now().Add(60 * time.Second))
ReadTimeout == 60 * Second

\* The read deadline just set, counted in ticks of the ping ticker.
DeadlineTicks == ReadTimeout \div PingPeriod

NewLoop(ctx) ==
  [pc |-> "select", ctx |-> ctx, reconnectDelay |-> InitialReconnectDelay,
   conn |-> "none", errCh |-> FALSE,
   inbox |-> << >>, received |-> 0, frame |-> NoFrame, handling |-> FALSE,
   connClosed |-> FALSE, reader |-> "none", readDeadline |-> 0]

\* A goroutine that returned: its locals are gone.
DoneLoop == [NewLoop("background") EXCEPT !.pc = "done"]

\* NewBinanceCrawler / NewBybitCrawler / NewOKXCrawler.  wsConn is 0 for nil,
\* else the goroutine whose connection c.wsConn (Bybit: c.wsClient) points to.
\* idleStops counts the StopWebSocketStream calls of API callers that found
\* the adapter not running.
NewAdapter ==
  [wsRunning |-> FALSE, wsStopCh |-> "open", wsConn |-> 0,
   loops |-> << >>, startErr |-> Nil, idleStops |-> 0]

\* A sync that has not been called: where SyncPrices / SyncDailySchedule
\* stands, the item and the attempt it is at, the requests it has sent and
\* the status of the last response, the items it skipped, processed and
\* failed to process, and the error it returns.
IdleSync ==
  [kind |-> Nil, pc |-> "idle", idx |-> 0, attempt |-> 0,
   requests |-> 0, lastStatus |-> 0,
   skipped |-> {}, processed |-> {}, failed |-> {}, err |-> Nil]

\* NewCrawler.  Per call of Start the goroutines it launched: "none" before
\* the call, "pending" when launched and not yet run, "sync" in the sync
\* called before the poller exists, "ticker" as a poller task waiting for its
\* ticker, "poll" in the sync of a poller iteration, "returned" when the
\* goroutine has ended.  closed: stopCh is closed; closing: the adapter the
\* running Close call is about to stop; late: per poller the iterations it
\* began after Close; syncFailed: a sync returned an error; critical:
\* tasks.HandleCrit has called shutdown; sync: the sync calls, each goroutine
\* that calls a sync having its own.
NewSup ==
  [starts |-> 0, closed |-> FALSE, closing |-> "none",
   tasks |-> [n \in 1..MaxStarts |->
                [nba |-> "none", binance |-> "none", bybit |-> "none"]],
   late |-> [n \in 1..MaxStarts |-> [nba |-> 0, binance |-> 0]],
   syncFailed |-> FALSE, critical |-> FALSE,
   sync |-> [g \in Syncs |-> IdleSync]]

(***************************************************************************)
(* The verification code manager (services/common/verification_code.go).   *)
(***************************************************************************)
\* Concurrent callers of VerifyCode, SendCode calls made, and the span of the
\* clock, which counts periods of the cleanup ticker.
NumCallers == 2
MaxCodes == 2
MaxClock == 3

Callers == 1 .. NumCallers

\* cleanupExpiredCodes' ticker period and the manager's timeout.
CleanupPeriod == 30 * Second
CodeTimeout == 60 * Second
TimeoutTicks == CodeTimeout \div CleanupPeriod

\* The one target the callers send codes to and verify codes for.
Target == "user@example.com"

\* GenerateCode: a decimal string between min and max; the two ends of the
\* range stand for it.
GenerateCode == {"100000", "999999"}

\* The lookup m.codes[target] of an absent key: nil, exists = false.
NoEntry == [id |-> 0, code |-> Nil, expiresAt |-> 0]

\* A VerifyCode call: where it stands, its inputCode, the entry pointer its
\* read-locked lookup returned, and what it returns.
IdleCall == [pc |-> "idle", inputCode |-> Nil, entry |-> NoEntry, result |-> "none"]

\* NewVerificationCodeManager: an empty codes map.  id tells apart the
\* entries SendCode allocates; accepted counts, per entry, the VerifyCode
\* calls that returned true for it.
NewVerificationCodeManager ==
  [codes |-> [t \in {Target} |-> NoEntry],
   now |-> 0, issued |-> 0,
   calls |-> [c \in Callers |-> IdleCall],
   accepted |-> [k \in 1 .. MaxCodes |-> 0]]

\* time.Now().After(entry.ExpiresAt)
Expired(m, entry) == m.now > entry.expiresAt

\* delete(m.codes, target) under the write lock.
DeleteCode(m) == [m EXCEPT !.codes[Target] = NoEntry]

\* VerifyCode's checks on the entry its lookup returned: not found, expired,
\* equal codes, or invalid.
VerifyResult(m, call) ==
  IF call.entry = NoEntry THEN "not found"
  ELSE IF Expired(m, call.entry) THEN "expired"
  ELSE IF call.entry.code = call.inputCode THEN "true"
  ELSE "invalid"

\* The state after construction: empty tables, no transaction, adapters
\* and supervisor constructed and not started.
Init ==
  /\ db = EmptyDB
  /\ today = 1
  /\ tx = [w \in Transactions |-> IdleTx]
  /\ outcome = [w \in Transactions |-> "none"]
  /\ lastPeriod = [w \in Transactions |-> <<Nil, Nil>>]
  /\ ws = [a \in CryptoAdapters |-> NewAdapter]
  /\ cancelled = FALSE
  /\ panicked = FALSE
  /\ sup = NewSup
  /\ driven = Nil
  /\ wire = NoWire
  /\ vcm = NewVerificationCodeManager

Loops(a) == DOMAIN ws[a].loops

\* <-ctx.Done() is ready.
CtxDone(l) == l.ctx = "root" /\ cancelled

\* <-c.wsStopCh or <-ctx.Done() is ready for loop l of adapter a.
StopObserved(a, l) == ws[a].wsStopCh = "closed" \/ CtxDone(l)

\* A step of goroutine i of adapter a that leaves it as l.
SetLoop(a, i, l) ==
  /\ ~panicked
  /\ ws' = [ws EXCEPT ![a].loops[i] = l]
  /\ UNCHANGED <<uvars, cancelled, panicked, sup, driven, wire, vcm>>

\* The wsRunning check of StartWebSocketStream without the flag.
NeverAlreadyRunning(s) == FALSE

\* "if c.wsRunning" in StartWebSocketStream, under wsMutex.
AlreadyRunning(s) == s.wsRunning

\* The adapter after StartWebSocketStream(ctx).
AfterStart(s, ctx) ==
  IF AlreadyRunning(s)
  THEN [s EXCEPT !.startErr = AlreadyRunningError]
  ELSE [s EXCEPT !.wsRunning = TRUE,
                 !.loops = Append(@, NewLoop(ctx)),
                 !.startErr = Nil]

\* StopWebSocketStream closes a closed wsStopCh: a runtime panic.
StopPanics(s) == s.wsRunning /\ s.wsStopCh = "closed"

\* The adapter after StopWebSocketStream (when it does not panic).
AfterStop(s) ==
  IF ~s.wsRunning THEN s
  ELSE [s EXCEPT !.wsStopCh = "closed",
                 !.loops = [i \in DOMAIN @ |->
                              IF i = s.wsConn /\ @[i].conn # "none"
                              THEN [@[i] EXCEPT !.conn = "dead", !.connClosed = TRUE]
                              ELSE @[i]],
                 !.wsConn = 0,
                 !.wsRunning = FALSE]

\* A caller invokes StartWebSocketStream(ctx) with a cancellable context.
StartWebSocketStream(a) ==
  /\ a = driven
  /\ ~panicked
  /\ AlreadyRunning(ws[a]) \/ Len(ws[a].loops) < MaxLoops
  /\ ws' = [ws EXCEPT ![a] = AfterStart(ws[a], "root")]
  /\ UNCHANGED <<uvars, cancelled, panicked, sup, driven, wire, vcm>>

\* A caller invokes StopWebSocketStream.
StopWebSocketStream(a) ==
  /\ a = driven
  /\ ~panicked
  /\ ws[a].wsRunning \/ ws[a].idleStops < MaxIdleStops
  /\ IF StopPanics(ws[a])
     THEN panicked' = TRUE /\ UNCHANGED ws
     ELSE /\ ws' = [ws EXCEPT ![a] =
                     [AfterStop(ws[a]) EXCEPT
                        !.idleStops = IF ws[a].wsRunning THEN @ ELSE @ + 1]]
          /\ UNCHANGED panicked
  /\ UNCHANGED <<uvars, cancelled, sup, driven, wire, vcm>>

\* The caller cancels the context it handed to StartWebSocketStream.
Cancel ==
  /\ ~panicked
  /\ ~cancelled
  /\ cancelled' = TRUE
  /\ UNCHANGED <<uvars, ws, panicked, sup, driven, wire, vcm>>

(***************************************************************************)
(* runWebSocketStream and connectAndSubscribe.                             *)
(***************************************************************************)
\* The select at the head of the for loop of runWebSocketStream.
LoopSelect(a, i) ==
  LET l == ws[a].loops[i]
  IN /\ i \in Loops(a)
     /\ l.pc = "select"
     /\ IF StopObserved(a, l)
        THEN SetLoop(a, i, [DoneLoop EXCEPT !.received = l.received, !.frame = l.frame,
                                            !.handling = l.handling,
                                            !.conn = l.conn,
                                            !.connClosed = l.connClosed,
                                            !.reader = l.reader])
        ELSE SetLoop(a, i, [l EXCEPT !.pc = "dial", !.conn = "none",
                                     !.connClosed = FALSE, !.reader = "none",
                                     !.readDeadline = 0])

\* conn.Close()
CloseConn(l) == [l EXCEPT !.conn = "dead", !.connClosed = TRUE]

\* The read loop is entered: the read deadline is set and the reader
\* goroutine of the connection is started.
EnterStream(l) ==
  [l EXCEPT !.pc = "stream", !.reader = "reading", !.readDeadline = DeadlineTicks]

\* connectAndSubscribe returned an error: time.Sleep(reconnectDelay) begins.
ReturnError(l) == [l EXCEPT !.pc = "sleep", !.errCh = FALSE, !.inbox = << >>]

\* dialer.Dial (Bybit: wsClient.Connect) of connectAndSubscribe.
Dial(a, i, ok) ==
  LET l == ws[a].loops[i]
  IN /\ i \in Loops(a)
     /\ l.pc = "dial"
     /\ ~panicked
     /\ IF ~ok \/ Symbols = {}
        THEN ws' = [ws EXCEPT ![a].loops[i] = ReturnError(l)]
        ELSE ws' = [ws EXCEPT ![a].loops[i] =
                                [l EXCEPT !.pc = "subscribe", !.conn = "open"],
                              ![a].wsConn = IF a = "BYBIT" THEN @ ELSE i]
     /\ UNCHANGED <<uvars, cancelled, panicked, sup, driven, wire, vcm>>

\* conn.WriteJSON(subscribeMsg) (Bybit: connectedWS.SendSubscription).
Subscribe(a, i, ok) ==
  LET l == ws[a].loops[i]
  IN /\ i \in Loops(a)
     /\ l.pc = "subscribe"
     /\ ~panicked
     /\ IF ok /\ l.conn = "open"
        THEN IF a = "BYBIT"
             THEN ws' = [ws EXCEPT ![a].loops[i] = [l EXCEPT !.pc = "stream"],
                                   ![a].wsConn = i]
             ELSE ws' = [ws EXCEPT ![a].loops[i] = [l EXCEPT !.pc = "confirm"]]
        ELSE IF a = "BYBIT"
             THEN ws' = [ws EXCEPT ![a].loops[i] = ReturnError(l)]
             ELSE ws' = [ws EXCEPT ![a].loops[i] =
                                     ReturnError(CloseConn(l))]
     /\ UNCHANGED <<uvars, cancelled, panicked, sup, driven, wire, vcm>>

\* What conn.ReadJSON(&confirmMsg) can give: a "subscribe", "error" or "pong"
\* event, a frame that is no JSON ("undecodable"), a failed read of the
\* connection ("readError": it is closed or lost, or the read deadline has
\* passed), and, when the reads of a failed connection are repeated, the
\* panic of the websocket connection ("repeatedRead").
ConfirmReplies(a, l) ==
  IF l.conn # "open"
  THEN IF a = "OKX" THEN {"readError", "repeatedRead"} ELSE {"readError"}
  ELSE IF a = "OKX" THEN {"subscribe", "error", "pong", "undecodable", "readError"}
  ELSE {"subscribe", "readError"}

\* Binance: conn.ReadJSON(&confirmMsg), an error closes the connection.
\* OKX: one pass of the confirmation loop.  An "error" event closes the
\* connection and returns.  A pong is skipped.  After a ReadJSON error the
\* "break" leaves the select only and the loop reads again: a frame that
\* does not decode leaves the connection readable; a failed read stays
\* failed, every further read returns the error at once, and the connection
\* panics when the read of a failed connection is repeated often enough,
\* which ends the process.
Confirm(a, i, reply) ==
  LET l == ws[a].loops[i]
  IN /\ i \in Loops(a)
     /\ l.pc = "confirm"
     /\ reply \in ConfirmReplies(a, l)
     /\ IF reply = "subscribe"
        THEN SetLoop(a, i, EnterStream(l))
        ELSE IF a = "OKX" /\ reply \in {"pong", "undecodable"}
        THEN SetLoop(a, i, l)
        ELSE IF a = "OKX" /\ reply = "readError"
        THEN SetLoop(a, i, [l EXCEPT !.conn = "dead"])
        ELSE IF a = "OKX" /\ reply = "repeatedRead"
        THEN /\ ~panicked
             /\ panicked' = TRUE
             /\ UNCHANGED <<uvars, ws, cancelled, sup, driven, wire, vcm>>
        ELSE SetLoop(a, i, ReturnError(CloseConn(l)))

\* The select of connectAndSubscribe takes <-ctx.Done() or <-c.wsStopCh: the
\* connection is closed, nil is returned and runWebSocketStream resets
\* reconnectDelay.  The Bybit adapter reads c.wsClient twice without wsMutex,
\* "if c.wsClient != nil { c.wsClient.Disconnect() }", while
\* StopWebSocketStream, which closed wsStopCh, disconnects the client and
\* writes nil to the field: the goroutine finds nil and calls nothing, calls
\* Disconnect on the client Stop disconnects, or finds the client at the test
\* and nil at the call, a nil dereference that ends the process.
StreamStopped(a, i, race) ==
  LET l == ws[a].loops[i]
  IN /\ i \in Loops(a)
     /\ l.pc = "stream"
     /\ StopObserved(a, l)
     /\ a = "BYBIT" \/ ~l.handling
     /\ race = "nilDereference" => (a = "BYBIT" /\ ws[a].wsConn = 0)
     /\ IF race = "nilDereference"
        THEN /\ ~panicked
             /\ panicked' = TRUE
             /\ UNCHANGED <<uvars, ws, cancelled, sup, driven, wire, vcm>>
        ELSE SetLoop(a, i, [CloseConn(l) EXCEPT !.pc = "select", !.errCh = FALSE,
                                                !.inbox = << >>,
                                                !.reconnectDelay = InitialReconnectDelay])

\* The reader goroutine: conn.ReadMessage failed, the error goes to errCh.
ReaderError(a, i) ==
  LET l == ws[a].loops[i]
  IN /\ i \in Loops(a)
     /\ a # "BYBIT"
     /\ l.pc = "stream"
     /\ l.conn = "dead"
     /\ ~l.errCh
     /\ SetLoop(a, i, [l EXCEPT !.errCh = TRUE, !.reader = "exited"])

\* The select takes err := <-errCh: "WebSocket read error" is returned.
StreamReadError(a, i) ==
  LET l == ws[a].loops[i]
  IN /\ i \in Loops(a)
     /\ l.pc = "stream"
     /\ l.errCh
     /\ ~l.handling
     /\ SetLoop(a, i, ReturnError(l))

\* The read deadline after a tick of the ping ticker whose write succeeded:
\* a period of the ticker has passed since the tick before.  OKX sets the
\* deadline anew after its ping, Binance leaves it where it is.
DeadlineAfterPing(a, d) ==
  IF a = "OKX" THEN DeadlineTicks ELSE IF d > 0 THEN d - 1 ELSE 0

\* The select takes <-pingTicker.C: a failed write returns an error.
PingTick(a, i, ok) ==
  LET l == ws[a].loops[i]
  IN /\ i \in Loops(a)
     /\ a # "BYBIT"
     /\ l.pc = "stream"
     /\ ~l.handling
     /\ IF ok /\ l.conn = "open"
        THEN SetLoop(a, i, [l EXCEPT !.readDeadline = DeadlineAfterPing(a, @)])
        ELSE SetLoop(a, i, ReturnError(l))

\* The peer sends a Pong frame: the pong handler sets the read deadline anew.
PongFrame(a, i) ==
  LET l == ws[a].loops[i]
  IN /\ i \in Loops(a)
     /\ a # "BYBIT"
     /\ l.pc = "stream"
     /\ l.conn = "open"
     /\ l.reader = "reading"
     /\ l.readDeadline < DeadlineTicks
     /\ SetLoop(a, i, [l EXCEPT !.readDeadline = DeadlineTicks])

\* The read deadline has passed: conn.ReadMessage of the reader goroutine
\* returns a timeout error, which goes to errCh.
ReadDeadlinePassed(a, i) ==
  LET l == ws[a].loops[i]
  IN /\ i \in Loops(a)
     /\ a # "BYBIT"
     /\ l.pc = "stream"
     /\ l.reader = "reading"
     /\ l.readDeadline = 0
     /\ ~l.errCh
     /\ SetLoop(a, i, [l EXCEPT !.errCh = TRUE, !.reader = "exited"])

\* connectAndSubscribe has returned with the reader goroutine still in
\* conn.ReadMessage.  On a closed or lost connection the read fails at once; on
\* a connection left open no ping is written any more, so the read deadline
\* passes.  Either way the error fits into the buffer of errCh and the
\* goroutine returns.
ReaderExits(a, i) ==
  LET l == ws[a].loops[i]
  IN /\ i \in Loops(a)
     /\ a # "BYBIT"
     /\ l.pc # "stream"
     /\ l.reader = "reading"
     /\ SetLoop(a, i, [l EXCEPT !.reader = "exited"])

\* The exchange closes the connection, or the network drops it.
PeerClose(a, i) ==
  LET l == ws[a].loops[i]
  IN /\ i \in Loops(a)
     /\ l.pc \in {"subscribe", "confirm", "stream"}
     /\ l.conn = "open"
     /\ SetLoop(a, i, [l EXCEPT !.conn = "dead"])

\* time.Sleep(reconnectDelay) is over: the delay grows, the loop continues.
Wake(a, i) ==
  LET l == ws[a].loops[i]
  IN /\ i \in Loops(a)
     /\ l.pc = "sleep"
     /\ SetLoop(a, i, [l EXCEPT !.pc = "select",
                                !.reconnectDelay = NextReconnectDelay(@)])

\* A step of a runWebSocketStream goroutine of adapter a, the dial and the
\* subscription having one of the given outcomes.
LoopStepUnder(a, outcomes) ==
  \E i \in 1..MaxLoops :
    \/ LoopSelect(a, i)
    \/ \E ok \in outcomes : Dial(a, i, ok)
    \/ \E ok \in outcomes : Subscribe(a, i, ok)
    \/ \E reply \in {"subscribe", "error", "pong", "undecodable", "readError",
                      "repeatedRead"} : Confirm(a, i, reply)
    \/ \E race \in {"none", "nilDereference"} : StreamStopped(a, i, race)
    \/ StreamReadError(a, i)
    \/ Wake(a, i)

LoopStep(a) == LoopStepUnder(a, BOOLEAN)

\* What the connection, its reader goroutine and the ping ticker do.
ConnStep(a) ==
  \E i \in 1..MaxLoops :
    \/ ReaderError(a, i)
    \/ \E ok \in BOOLEAN : PingTick(a, i, ok)
    \/ PongFrame(a, i)
    \/ ReadDeadlinePassed(a, i)
    \/ ReaderExits(a, i)
    \/ PeerClose(a, i)

(***************************************************************************)
(* The frames of a subscribed connection: the reader goroutine, messageCh  *)
(* and handleWebSocketMessage.                                             *)
(***************************************************************************)
\* What an inbound frame can be: a ticker update, a control or ack message
\* (subscription confirmation, pong, another event type), or bytes that do
\* not decode.
FrameKinds == {"ticker", "control", "undecodable"}

\* The price the n-th frame of a connection reports when it is a ticker update.
TickPrice(n) == "65000." \o Itoa(n)

\* The tick handleWebSocketMessage decodes from ticker frame f.
TickOf(f) == [symbol |-> "BTCUSDT", price |-> TickPrice(f.seq)]

\* The reader goroutine: conn.ReadMessage returned a frame, which goes to
\* messageCh.  The Bybit client hands the frame to the message callback
\* itself and reads on when the callback has returned.
ReadMessage(a, i, kind) ==
  LET l == ws[a].loops[i]
  IN /\ i \in Loops(a)
     /\ l.pc = "stream"
     /\ l.conn = "open"
     /\ ~l.errCh
     /\ l.received < MaxFrames
     /\ a = "BYBIT" => (l.inbox = << >> /\ ~l.handling)
     /\ SetLoop(a, i, [l EXCEPT !.received = @ + 1,
                                !.inbox = Append(@, [seq |-> l.received + 1, kind |-> kind])])

\* NextMessage taking the newest frame of the buffer.
NextMessageNewest(inbox) == inbox[Len(inbox)]

\* "message := <-messageCh": a channel hands out what was sent first.
NextMessage(inbox) == Head(inbox)

\* messageCh after the receive.
Remaining(inbox) == SelectSeq(inbox, LAMBDA f : f # NextMessage(inbox))

\* IsTicker with every frame taken for a ticker update.
EveryFrameIsTicker(a, kind) == TRUE

\* handleWebSocketMessage reaches c.processPrice: the frame decodes as a
\* ticker update with a price.
IsTicker(a, kind) == kind = "ticker"

\* The select takes "message := <-messageCh" (Bybit: the client calls the
\* message callback): handleWebSocketMessage decodes the frame and, for a
\* ticker update, calls processPrice.
TakeMessage(a, i) ==
  LET l == ws[a].loops[i]
      f == NextMessage(l.inbox)
  IN /\ i \in Loops(a)
     /\ ~panicked
     /\ a = "BYBIT" \/ l.pc = "stream"
     /\ ~l.handling
     /\ l.inbox # << >>
     /\ At(i, "idle")
     /\ IF IsTicker(a, f.kind)
        THEN /\ ws' = [ws EXCEPT ![a].loops[i] =
                         [l EXCEPT !.inbox = Remaining(l.inbox), !.frame = f,
                                   !.handling = TRUE]]
             /\ tx' = [tx EXCEPT ![i] = BeginTx(a, TickOf(f))]
        ELSE /\ ws' = [ws EXCEPT ![a].loops[i] =
                         [l EXCEPT !.inbox = Remaining(l.inbox), !.frame = f]]
             /\ UNCHANGED tx
     /\ UNCHANGED <<db, today, outcome, lastPeriod, cancelled, panicked, sup, driven, wire, vcm>>

\* AfterHandle with the error of handleWebSocketMessage returned by
\* connectAndSubscribe.
AfterHandleFatal(l, err) ==
  IF err = Nil THEN [l EXCEPT !.handling = FALSE]
  ELSE [l EXCEPT !.handling = FALSE, !.pc = "sleep", !.errCh = FALSE, !.inbox = << >>]

\* The goroutine after handleWebSocketMessage returned err: the error is
\* logged and the select is entered again.
AfterHandle(l, err) == [l EXCEPT !.handling = FALSE]

ProcessError == "failed to process price update"

\* processPrice returned to handleWebSocketMessage, which returns.
HandleReturned(a, i) ==
  LET l == ws[a].loops[i]
  IN /\ i \in Loops(a)
     /\ l.handling
     /\ At(i, "idle")
     /\ SetLoop(a, i, AfterHandle(l, IF outcome[i] = "ok" THEN Nil ELSE ProcessError))

\* What happens to the frames of adapter a's connection.
FrameStep(a) ==
  \E i \in 1..MaxLoops :
    \/ \E kind \in FrameKinds : ReadMessage(a, i, kind)
    \/ TakeMessage(a, i)
    \/ HandleReturned(a, i)

(***************************************************************************)
(* BinanceCrawler.SyncPrices and NBACrawler.SyncDailySchedule: the fetch   *)
(* under retry.Do and the loop over the symbols / games.                   *)
(***************************************************************************)
\* c.symbols of the REST poll and the games of a schedule response.
RestSymbols == <<"BTCUSDT", "ETHUSDT">>
ScheduleGames == <<"game123", "game456">>

\* The HTTP status codes an endpoint answers with.
HTTPStatuses == {200, 404, 500}

\* The body of a response: the document asked for, a JSON document without
\* it (an empty price, no games), bytes that are no JSON, or a body whose
\* read fails.
HTTPBodies == {"ok", "empty", "undecodable", "unreadable"}

\* What httpClient.Do gives: a transport error and no response (status 0),
\* or a response.
HTTPReplies ==
  {[status |-> 0, body |-> "none"]} \cup [status : HTTPStatuses, body : HTTPBodies]

SyncFailure == "failed to sync NBA schedule after retries"

\* maxAttempts handed to retry.Do by fetchPrice and SyncDailySchedule.
FetchAttempts == 3

\* The error the function handed to retry.Do returns: the transport error,
\* the read error of the body, the status, the decoding, and in fetchPrice
\* the empty price, in this order.
AttemptError(kind, reply) ==
  IF reply.status = 0 THEN "failed to call API"
  ELSE IF reply.body = "unreadable" THEN "failed to read response body"
  ELSE IF reply.status # 200
  THEN IF reply.status >= 400 /\ reply.status < 500
       THEN "API returned client error"
       ELSE "API returned server error"
  ELSE IF reply.body = "undecodable" THEN "failed to decode API response"
  ELSE IF kind = "rest" /\ reply.body = "empty" THEN "price is empty in response"
  ELSE Nil

\* retry.Do: fn is called again after any error while attempts remain.
RetryAgain(attempt, err) == err # Nil /\ attempt < FetchAttempts

\* The items the running sync loops over.
SyncItems(y) == IF y.kind = "rest" THEN RestSymbols ELSE ScheduleGames

\* A step of sync n that leaves it as y.
SetSync(n, y) ==
  /\ ~panicked
  /\ sup' = [sup EXCEPT !.sync[n] = y]
  /\ UNCHANGED <<uvars, ws, cancelled, panicked, driven, wire, vcm>>

\* "continue" / end of the loop body: on to the next symbol or game.
Advance(y) ==
  IF y.idx + 1 > Len(SyncItems(y))
  THEN [y EXCEPT !.idx = @ + 1, !.pc = "done"]
  ELSE [y EXCEPT !.idx = @ + 1, !.attempt = 1,
                 !.pc = IF y.kind = "rest" THEN "fetch" ELSE "process"]

\* SyncPrices / SyncDailySchedule is entered: the first symbol's fetchPrice,
\* or the retried GET of the schedule, begins.
BeginSync(kind) ==
  IF kind = "rest"
  THEN Advance([IdleSync EXCEPT !.kind = "rest"])
  ELSE [IdleSync EXCEPT !.kind = "nba", !.pc = "fetch", !.attempt = 1]

\* The sync call before this one, made by the same caller, has returned.
NoSyncRunning(g) == sup.sync[g].pc \in {"idle", "done"}

\* A caller calls SyncPrices.
SyncPrices ==
  /\ driven = "REST"
  /\ NoSyncRunning(1)
  /\ SetSync(1, BeginSync("rest"))

\* A caller calls SyncDailySchedule.
SyncDailySchedule ==
  /\ driven = "NBA"
  /\ NoSyncRunning(1)
  /\ SetSync(1, BeginSync("nba"))

\* One call of the function under retry.Do: the request is sent and answered
\* with the given reply.  A schedule without games ends the NBA sync.
HTTPCall(n, reply) ==
  LET y == [sup.sync[n] EXCEPT !.requests = @ + 1, !.lastStatus = reply.status]
      err == AttemptError(y.kind, reply)
  IN /\ sup.sync[n].pc = "fetch"
     /\ IF err = Nil
        THEN SetSync(n, IF y.kind = "rest" THEN [y EXCEPT !.pc = "process"]
                        ELSE IF reply.body = "empty" THEN [y EXCEPT !.pc = "done"]
                        ELSE Advance(y))
        ELSE IF RetryAgain(y.attempt, err)
        THEN SetSync(n, [y EXCEPT !.attempt = @ + 1])
        ELSE IF y.kind = "rest"
        THEN SetSync(n, Advance([y EXCEPT !.skipped = @ \cup {RestSymbols[y.idx]}]))
        ELSE SetSync(n, [y EXCEPT !.pc = "done", !.err = SyncFailure])

\* The price ticks fetchPrice can return for a symbol, and the games a
\* schedule response can carry under a game id.
SyncInputsOf(kind, item) ==
  IF kind = "rest"
  THEN {[symbol |-> item, price |-> p] : p \in Prices}
  ELSE {[id |-> item, status |-> st,
         homePoints |-> pts.home, awayPoints |-> pts.away,
         home |-> HomeTeam, away |-> AwayTeam] : st \in Statuses, pts \in GamePoints}

\* The inputs the sync hands to the upsert for its current item.
SyncInputs(y) == SyncInputsOf(y.kind, SyncItems(y)[y.idx])

AllSyncInputs ==
  UNION {SyncInputsOf("rest", RestSymbols[i]) : i \in DOMAIN RestSymbols}
    \cup UNION {SyncInputsOf("nba", ScheduleGames[i]) : i \in DOMAIN ScheduleGames}

\* c.processPrice(priceData) / c.processGame(game, apiResp) is called.
SyncProcess(n, in) ==
  /\ sup.sync[n].pc = "process"
  /\ in \in SyncInputs(sup.sync[n])
  /\ At(n, "idle")
  /\ ~panicked
  /\ tx' = [tx EXCEPT ![n] = BeginTx(IF sup.sync[n].kind = "rest" THEN "BINANCE" ELSE "NBA", in)]
  /\ sup' = [sup EXCEPT !.sync[n].pc = "upsert"]
  /\ UNCHANGED <<db, today, outcome, lastPeriod, ws, cancelled, panicked, driven, wire, vcm>>

\* processPrice / processGame returned: an error is logged, then "continue".
SyncProcessed(n) ==
  LET y == sup.sync[n]
      item == SyncItems(y)[y.idx]
  IN /\ y.pc = "upsert"
     /\ At(n, "idle")
     /\ IF outcome[n] = "ok"
        THEN SetSync(n, Advance([y EXCEPT !.processed = @ \cup {item}]))
        ELSE SetSync(n, Advance([y EXCEPT !.failed = @ \cup {item}]))

\* One sync called by a caller, with the statements of its upserts.
SyncNext ==
  \/ SyncPrices
  \/ SyncDailySchedule
  \/ \E reply \in HTTPReplies : HTTPCall(1, reply)
  \/ \E in \in AllSyncInputs : SyncProcess(1, in)
  \/ TeamStatement(1)
  \/ UpsertStatement(1)
  \/ SyncProcessed(1)

(***************************************************************************)
(* The Crawler supervisor.                                                 *)
(***************************************************************************)
SetSup(s) ==
  /\ ~panicked
  /\ sup' = s
  /\ UNCHANGED <<uvars, ws, cancelled, panicked, driven, wire, vcm>>

\* Crawler.Start: go runNBASync, go runBinanceSync, go runBybitSync.
CrawlerStart ==
  /\ sup.starts < MaxStarts
  /\ SetSup([sup EXCEPT !.starts = @ + 1,
                         !.tasks[sup.starts + 1] =
                            [nba |-> "pending", binance |-> "pending", bybit |-> "pending"]])

\* The sync a goroutine of feed k calls.
SyncKind(k) == IF k = "nba" THEN "nba" ELSE "rest"

\* The sync call of the goroutine of feed k that the n-th Start launched.
SyncOf(n, k) == IF k = "nba" THEN n ELSE MaxStarts + n

\* runNBASync is scheduled: it calls syncNBAToday, and with it
\* NBACrawler.SyncToday, before anything else.
runNBASync(n) ==
  /\ sup.tasks[n].nba = "pending"
  /\ SetSup([sup EXCEPT !.tasks[n].nba = "sync",
                         !.sync[SyncOf(n, "nba")] = BeginSync("nba")])

\* runBinanceSync is scheduled: StartWebSocketStream under wsMutex.  Only when
\* it returns an error does the goroutine go on, with syncBinancePrices.
runBinanceSync(n) ==
  LET s == ws["BINANCE"]
  IN /\ ~panicked
     /\ sup.tasks[n].binance = "pending"
     /\ AlreadyRunning(s) \/ Len(s.loops) < MaxLoops
     /\ ws' = [ws EXCEPT !["BINANCE"] = AfterStart(s, "background")]
     /\ sup' = IF AlreadyRunning(s)
               THEN [sup EXCEPT !.tasks[n].binance = "sync",
                                !.sync[SyncOf(n, "binance")] = BeginSync("rest")]
               ELSE [sup EXCEPT !.tasks[n].binance = "returned"]
     /\ UNCHANGED <<uvars, cancelled, panicked, driven, wire, vcm>>

\* runBybitSync: a StartWebSocketStream error is only logged.
runBybitSync(n) ==
  LET s == ws["BYBIT"]
  IN /\ ~panicked
     /\ sup.tasks[n].bybit = "pending"
     /\ AlreadyRunning(s) \/ Len(s.loops) < MaxLoops
     /\ ws' = [ws EXCEPT !["BYBIT"] = AfterStart(s, "background")]
     /\ sup' = [sup EXCEPT !.tasks[n].bybit = "returned"]
     /\ UNCHANGED <<uvars, cancelled, panicked, driven, wire, vcm>>

\* PollerResult with the error of the sync returned by the task function.
PollerResultReturnsError(syncErr) == syncErr

\* What the task function of a poller hands to its tasks.Group when a sync
\* returned syncErr: syncNBAToday / syncBinancePrices log the error and the
\* "for range workerTicker.C" loop goes on.
PollerResult(syncErr) == Nil

\* syncNBAToday / syncBinancePrices returns to the goroutine that called it;
\* an error of the sync is logged.  After the sync called first the ticker
\* and the poller task are created and the goroutine ends; a poller task
\* waits for the next tick.  An error the task function reports reaches
\* HandleCrit, which calls the shutdown function.
SyncReturns(n, k) ==
  LET y == sup.sync[SyncOf(n, k)]
  IN /\ sup.tasks[n][k] \in {"sync", "poll"}
     /\ y.pc = "done"
     /\ SetSup([sup EXCEPT !.tasks[n][k] = "ticker",
                            !.syncFailed = @ \/ y.err # Nil,
                            !.critical = @ \/ (/\ sup.tasks[n][k] = "poll"
                                               /\ PollerResult(y.err) # Nil)])

\* A tick of a poller's ticker, "for range workerTicker.C { sync }": the
\* iteration calls the sync.  The iterations begun after Close are counted.
Poll(n, k) ==
  /\ sup.tasks[n][k] = "ticker"
  /\ sup.closed => sup.late[n][k] < MaxLateIterations
  /\ SetSup([sup EXCEPT !.tasks[n][k] = "poll",
                         !.late[n][k] = IF sup.closed THEN @ + 1 ELSE @,
                         !.sync[SyncOf(n, k)] = BeginSync(SyncKind(k))])

\* Crawler.Close is called: close(sh.stopCh); closing a closed channel is a
\* runtime panic.
CrawlerClose ==
  /\ ~panicked
  /\ IF sup.closed
     THEN panicked' = TRUE /\ UNCHANGED sup
     ELSE /\ sup' = [sup EXCEPT !.closed = TRUE, !.closing = "BINANCE"]
          /\ UNCHANGED panicked
  /\ UNCHANGED <<uvars, ws, cancelled, driven, wire, vcm>>

\* Crawler.Close goes on: StopWebSocketStream of the Binance adapter, then of
\* the Bybit adapter, each under the adapter's wsMutex.
CloseStopsStream(a) ==
  /\ ~panicked
  /\ sup.closing = a
  /\ IF StopPanics(ws[a])
     THEN panicked' = TRUE /\ UNCHANGED <<ws, sup>>
     ELSE /\ ws' = [ws EXCEPT ![a] = AfterStop(@)]
          /\ sup' = [sup EXCEPT !.closing = IF a = "BINANCE" THEN "BYBIT" ELSE "none"]
          /\ UNCHANGED panicked
  /\ UNCHANGED <<uvars, cancelled, driven, wire, vcm>>

\* The feeds, each exercised by itself: an exchange adapter's stream with
\* the frames of its connection, the Binance REST poll, the NBA sync.
IngestInit ==
  /\ db = EmptyDB
  /\ today = 1
  /\ tx = [w \in Transactions |-> IdleTx]
  /\ outcome = [w \in Transactions |-> "none"]
  /\ lastPeriod = [w \in Transactions |-> <<Nil, Nil>>]
  /\ ws = [a \in CryptoAdapters |-> NewAdapter]
  /\ cancelled = FALSE
  /\ panicked = FALSE
  /\ sup = NewSup
  /\ driven \in CryptoAdapters \cup {"REST", "NBA"}
  /\ wire = NoWire
  /\ vcm = NewVerificationCodeManager

IngestNext ==
  \/ SyncNext
  \/ \E a \in CryptoAdapters : StartWebSocketStream(a)
  \/ \E a \in CryptoAdapters : StopWebSocketStream(a)
  \/ \E a \in CryptoAdapters : LoopStepUnder(a, {TRUE})
  \/ \E a \in CryptoAdapters : \E i \in 1..MaxLoops : ReaderError(a, i)
  \/ \E a \in CryptoAdapters : \E i \in 1..MaxLoops : PeerClose(a, i)
  \/ \E a \in CryptoAdapters : FrameStep(a)
  \/ \E w \in Workers : UpsertStatement(w)

IngestSpec == IngestInit /\ [][IngestNext]_vars

(***************************************************************************)
(* Specifications.                                                         *)
(***************************************************************************)
\* Upserts of all four adapters, issued one after another by a single caller.
SeqNext ==
  \/ \E a \in Adapters : \E in \in Inputs(a) : Begin(1, a, in)
  \/ TeamStatement(1)
  \/ UpsertStatement(1)
  \/ NextDay
  \/ \E req \in CreateEventRequests : \E ok \in BOOLEAN : HandlerSvcCreateEvent(req, ok)
  \/ \E ok \in BOOLEAN : EventRepositoryCreateEvent(ok)
  \/ \E ok \in BOOLEAN : RereadCreatedEvent(ok)
  \/ \E ok \in BOOLEAN : EventRepositoryCreateEventLanguage(ok)
  \/ \E ok \in BOOLEAN : HandlerSvcCreateEventReturns(ok)

SeqSpec == Init /\ [][SeqNext]_vars

\* Upserts issued by concurrent callers of one adapter's processPrice.
ConcNext ==
  \/ \E w \in Workers : \E a \in ConcAdapters : \E in \in Inputs(a) : Begin(w, a, in)
  \/ \E w \in Workers : UpsertStatement(w)

ConcSpec == Init /\ [][ConcNext]_vars

\* One exchange adapter driven through its API by concurrent callers.
StreamInit ==
  /\ db = EmptyDB
  /\ today = 1
  /\ tx = [w \in Transactions |-> IdleTx]
  /\ outcome = [w \in Transactions |-> "none"]
  /\ lastPeriod = [w \in Transactions |-> <<Nil, Nil>>]
  /\ ws = [a \in CryptoAdapters |-> NewAdapter]
  /\ cancelled = FALSE
  /\ panicked = FALSE
  /\ sup = NewSup
  /\ driven \in CryptoAdapters
  /\ wire = NoWire
  /\ vcm = NewVerificationCodeManager

StreamNext ==
  \/ \E a \in CryptoAdapters : StartWebSocketStream(a)
  \/ \E a \in CryptoAdapters : StopWebSocketStream(a)
  \/ Cancel
  \/ \E a \in CryptoAdapters : LoopStep(a)
  \/ \E a \in CryptoAdapters : ConnStep(a)

StreamSpec == StreamInit /\ [][StreamNext]_vars

\* The connection of the driven adapter delivers frame w to
\* handleWebSocketMessage (the handler is not running).
ReceiveWire(w) ==
  /\ w.adapter = driven
  /\ wire = NoWire \/ wire.decoded
  /\ At(1, "idle")
  /\ wire' = w
  /\ UNCHANGED <<uvars, ws, cancelled, panicked, sup, driven, vcm>>

\* handleWebSocketMessage decodes the frame and, for a ticker update, calls
\* processPrice with the tick.
HandleWire ==
  LET tick == Decode(wire.adapter, wire.msg)
  IN /\ wire # NoWire
     /\ ~wire.decoded
     /\ wire' = [wire EXCEPT !.decoded = TRUE]
     /\ tx' = [tx EXCEPT ![1] = IF tick = NoTick THEN @ ELSE BeginTx(wire.adapter, tick)]
     /\ UNCHANGED <<db, today, outcome, lastPeriod, ws, cancelled, panicked, sup, driven, vcm>>

\* The language an earlier run of the service was configured with.
EarlierLanguage == "lang-earlier"

\* The store a run of adapter a's upsert of one tick left when its
\* configuration named EarlierLanguage as default language: the period, the
\* Event and its EventLanguage row in that language.
EarlierRun(a) ==
  LET in == [symbol |-> "BTCUSDT", price |-> "50000.12"]
  IN [EmptyDB EXCEPT
        !.eventPeriod = {[guid |-> Guid(1), code |-> PeriodCode(a, in, Dates[1])]},
        !.event = {NewEvent(Guid(2), a, in, Guid(1), "0", "0")},
        !.eventLanguage = {[guid |-> Guid(3), eventGuid |-> Guid(2),
                            languageGuid |-> EarlierLanguage,
                            title |-> EventTitle(a, in),
                            rules |-> EventRules(a, in)]}]

\* The handler of one exchange starts on an empty store, or on the store an
\* earlier run left.
DecodeInit ==
  /\ driven \in CryptoAdapters
  /\ db \in {EmptyDB, EarlierRun(driven)}
  /\ today = 1
  /\ tx = [w \in Transactions |-> IdleTx]
  /\ outcome = [w \in Transactions |-> "none"]
  /\ lastPeriod = [w \in Transactions |-> <<Nil, Nil>>]
  /\ ws = [a \in CryptoAdapters |-> NewAdapter]
  /\ cancelled = FALSE
  /\ panicked = FALSE
  /\ sup = NewSup
  /\ wire = NoWire
  /\ vcm = NewVerificationCodeManager

\* The frames of one exchange, decoded and upserted one after another.
DecodeNext ==
  \/ \E w \in AllWires : ReceiveWire(w)
  \/ HandleWire
  \/ UpsertStatement(1)

DecodeSpec == DecodeInit /\ [][DecodeNext]_vars

(***************************************************************************)
(* Operations of the verification code manager.                            *)
(***************************************************************************)
\* SendCode: a fresh entry replaces the target's entry under the write lock.
SendCode(code) ==
  /\ vcm.issued < MaxCodes
  /\ vcm' = [vcm EXCEPT !.issued = @ + 1,
                        !.codes[Target] = [id |-> vcm.issued + 1, code |-> code,
                                           expiresAt |-> vcm.now + TimeoutTicks]]
  /\ UNCHANGED <<uvars, ws, cancelled, panicked, sup, driven, wire>>

\* VerifyCode, first critical section: the lookup under the read lock.
VerifyCodeRead(c, inputCode) ==
  /\ vcm.calls[c].pc = "idle"
  /\ vcm' = [vcm EXCEPT !.calls[c] = [pc |-> "check", inputCode |-> inputCode,
                                      entry |-> vcm.codes[Target],
                                      result |-> "none"]]
  /\ UNCHANGED <<uvars, ws, cancelled, panicked, sup, driven, wire>>

\* VerifyCode with no lock held: the checks on the entry read.  An absent
\* entry and a wrong code return at once; an expired entry and a matching code
\* go on to the delete.
VerifyCodeCheck(c) ==
  LET call == vcm.calls[c]
      res == VerifyResult(vcm, call)
  IN /\ call.pc = "check"
     /\ vcm' = [vcm EXCEPT !.calls[c] =
                   [call EXCEPT !.result = res,
                                !.pc = IF res \in {"expired", "true"}
                                         THEN "delete" ELSE "idle"]]
     /\ UNCHANGED <<uvars, ws, cancelled, panicked, sup, driven, wire>>

\* VerifyCode, second critical section: delete(m.codes, target) under the
\* write lock, then the return.
VerifyCodeDelete(c) ==
  LET call == vcm.calls[c]
      deleted == DeleteCode(vcm)
      counted == IF call.result = "true"
                   THEN [deleted EXCEPT !.accepted[call.entry.id] = @ + 1]
                   ELSE deleted
  IN /\ call.pc = "delete"
     /\ vcm' = [counted EXCEPT !.calls[c].pc = "idle"]
     /\ UNCHANGED <<uvars, ws, cancelled, panicked, sup, driven, wire>>

\* One period of the cleanup ticker passes.
TimePasses ==
  /\ vcm.now < MaxClock
  /\ vcm' = [vcm EXCEPT !.now = @ + 1]
  /\ UNCHANGED <<uvars, ws, cancelled, panicked, sup, driven, wire>>

\* cleanupExpiredCodes, one tick: expired entries are deleted.
cleanupExpiredCodes ==
  /\ vcm.now > 0
  /\ vcm.codes[Target] # NoEntry
  /\ Expired(vcm, vcm.codes[Target])
  /\ vcm' = DeleteCode(vcm)
  /\ UNCHANGED <<uvars, ws, cancelled, panicked, sup, driven, wire>>

VerifyNext ==
  \/ \E code \in GenerateCode : SendCode(code)
  \/ \E c \in Callers, inputCode \in GenerateCode : VerifyCodeRead(c, inputCode)
  \/ \E c \in Callers : VerifyCodeCheck(c)
  \/ \E c \in Callers : VerifyCodeDelete(c)
  \/ TimePasses
  \/ cleanupExpiredCodes

VerifySpec == Init /\ [][VerifyNext]_vars

(***************************************************************************)
(* The store under the writers no code of the repository calls.            *)
(***************************************************************************)
\* The store after processGame stored a scheduled game and then updated it:
\* the two teams with their names, the period, the Event and its title.
StoredGame ==
  LET in == [id |-> "game123", status |-> "scheduled",
             homePoints |-> << >>, awayPoints |-> << >>,
             home |-> HomeTeam, away |-> AwayTeam]
  IN [teamGroup |->
        {[guid |-> Guid(1), ecosystemGuid |-> NBAEcosystemGuid, externalId |-> HomeTeam.id],
         [guid |-> Guid(3), ecosystemGuid |-> NBAEcosystemGuid, externalId |-> AwayTeam.id]},
      teamGroupLanguage |->
        {[guid |-> Guid(2), teamGroupGuid |-> Guid(1), languageGuid |-> DefaultLanguage,
          alias |-> HomeTeam.alias, name |-> HomeTeam.name],
         [guid |-> Guid(4), teamGroupGuid |-> Guid(3), languageGuid |-> DefaultLanguage,
          alias |-> AwayTeam.alias, name |-> AwayTeam.name]},
      eventPeriod |-> {[guid |-> Guid(5), code |-> PeriodCode("NBA", in, Dates[1])]},
      event |-> {NewEvent(Guid(6), "NBA", in, Guid(5), Guid(1), Guid(3))},
      eventLanguage |->
        {[guid |-> Guid(7), eventGuid |-> Guid(6), languageGuid |-> DefaultLanguage,
          title |-> EventTitle("NBA", in), rules |-> ""]}]

StoreInit ==
  /\ db = StoredGame
  /\ today = 1
  /\ tx = [w \in Transactions |-> IdleTx]
  /\ outcome = [w \in Transactions |-> "none"]
  /\ lastPeriod = [w \in Transactions |-> <<Nil, Nil>>]
  /\ ws = [a \in CryptoAdapters |-> NewAdapter]
  /\ cancelled = FALSE
  /\ panicked = FALSE
  /\ sup = NewSup
  /\ driven = Nil
  /\ wire = NoWire
  /\ vcm = NewVerificationCodeManager

\* A caller outside the repository invokes one of the writers.
StoreNext ==
  \/ \E event \in EventStructs : \E ok \in BOOLEAN : UpdateEvent(event, ok)
  \/ \E guid \in NamedGuids : \E ok \in BOOLEAN : DeleteEvent(guid, ok)
  \/ \E guid \in NamedGuids : \E ok \in BOOLEAN : DeleteEventLanguage(guid, ok)
  \/ \E teamGroup \in TeamGroupStructs : \E ok \in BOOLEAN : UpdateTeamGroup(teamGroup, ok)
  \/ \E guid \in NamedGuids : \E ok \in BOOLEAN : DeleteTeamGroup(guid, ok)
  \/ \E teamGroupLang \in TeamGroupLanguageStructs : \E ok \in BOOLEAN :
       UpdateTeamGroupLanguage(teamGroupLang, ok)
  \/ \E guid \in NamedGuids : \E ok \in BOOLEAN : DeleteTeamGroupLanguage(guid, ok)
  \/ \E eventPeriod \in EventPeriodStructs : \E ok \in BOOLEAN :
       UpdateEventPeriod(eventPeriod, ok)
  \/ \E guid \in NamedGuids : \E ok \in BOOLEAN : DeleteEventPeriod(guid, ok)

StoreSpec == StoreInit /\ [][StoreNext]_vars

\* The inputs the syncs of the supervisor's goroutines hand to the upsert: a
\* closed game with its points, and the first price.
SupervisorInputs ==
  {in \in AllSyncInputs :
     IF "symbol" \in DOMAIN in
     THEN in.price = "65000.50"
     ELSE in.status = "closed" /\ in.homePoints # << >>}

\* The supervisor's goroutines.  driven tells which of the goroutines that
\* Start launched are scheduled: "NBA", the NBA goroutine of the first Start
\* with its syncs and its poller; "REST", the Binance goroutines with the REST syncs and
\* pollers of the fallback, the goroutines of the streams not running yet;
\* "STREAMS", the goroutines of the Binance and Bybit streams, a sync of
\* the fallback waiting for its first response.  Close is called in each.
SupervisorInit ==
  /\ db = EmptyDB
  /\ today = 1
  /\ tx = [w \in Transactions |-> IdleTx]
  /\ outcome = [w \in Transactions |-> "none"]
  /\ lastPeriod = [w \in Transactions |-> <<Nil, Nil>>]
  /\ ws = [a \in CryptoAdapters |-> NewAdapter]
  /\ cancelled = FALSE
  /\ panicked = FALSE
  /\ sup = NewSup
  /\ driven \in {"NBA", "REST", "STREAMS"}
  /\ wire = NoWire
  /\ vcm = NewVerificationCodeManager

\* The Binance endpoint may refuse the dial or the subscription, the Bybit
\* endpoint accepts them; connections end when StopWebSocketStream closes
\* them.
SupervisorNext ==
  \/ CrawlerStart
  \/ driven = "NBA" /\ runNBASync(1)
  \/ \E n \in 1..MaxStarts : driven \in {"REST", "STREAMS"} /\ runBinanceSync(n)
  \/ \E n \in 1..MaxStarts : driven = "STREAMS" /\ runBybitSync(n)
  \/ \E n \in 1..MaxStarts : \E k \in {"nba", "binance"} : SyncReturns(n, k)
  \/ \E n \in 1..MaxStarts : \E k \in {"nba", "binance"} : Poll(n, k)
  \/ CrawlerClose
  \/ \E a \in {"BINANCE", "BYBIT"} : CloseStopsStream(a)
  \/ driven = "STREAMS" /\ LoopStep("BINANCE")
  \/ driven = "STREAMS" /\ LoopStepUnder("BYBIT", {TRUE})
  \/ \E i \in 1..MaxLoops : driven = "STREAMS" /\ ReaderError("BINANCE", i)
  \/ \E g \in Syncs : \E reply \in HTTPReplies :
       driven \in {"NBA", "REST"} /\ HTTPCall(g, reply)
  \/ \E g \in Syncs : \E in \in SupervisorInputs : SyncProcess(g, in)
  \/ \E g \in Syncs : TeamStatement(g)
  \/ \E g \in Syncs : UpsertStatement(g)
  \/ \E g \in Syncs : SyncProcessed(g)

SupervisorSpec == SupervisorInit /\ [][SupervisorNext]_vars

(***************************************************************************)
(* Properties of the Event Upsert Protocol.                                *)
(***************************************************************************)
\* Worker w's Transaction call returns nil in this step: its writes commit.
Commits(w) == At(w, "commit") /\ tx'[w].pc = "idle" /\ outcome'[w] = "ok"

ExpectedIsLive(status) ==
  CASE status = "scheduled" -> 1 [] status = "inprogress" -> 0
    [] status = "closed" -> 2 [] OTHER -> 1

ExpectedStage(status) == IF status = "closed" THEN "FT" ELSE "Q1"

\* Row r carries the score/price, liveness and stage of input in.
ReflectsInput(r, a, in) ==
  IF a = "NBA"
  THEN /\ r.mainScore = (IF in.homePoints = << >> THEN "0"
                         ELSE IF in.homePoints = <<102>> THEN "102" ELSE "98")
       /\ r.clusterScore = (IF in.awayPoints = << >> THEN "0"
                            ELSE IF in.awayPoints = <<102>> THEN "102" ELSE "98")
       /\ r.isLive = ExpectedIsLive(in.status)
       /\ r.stage = ExpectedStage(in.status)
  ELSE /\ r.price = in.price
       /\ r.isLive = 0
       /\ r.stage = "LIVE"

\* C1: upserts issued one after another leave exactly one Event row for the
\* externalId of each successful upsert, its guid is the guid the row got
\* when it was first created (no step changes or removes the guid of a
\* stored row), and its score/price, liveness and stage are those of the
\* input of the upsert that just committed.
C1_IdempotentUpsert ==
  [][/\ \A r \in db.event :
          \E r2 \in db'.event : r2.guid = r.guid /\ r2.externalId = r.externalId
     /\ \A w \in Workers :
          Commits(w) =>
            LET e == ExternalID(tx[w].adapter, tx[w].input)
                before == EventsByExternalID(db, e)
                after == EventsByExternalID(db', e)
            IN /\ Cardinality(after) = 1
               /\ before # {} => {r.guid : r \in after} = {r.guid : r \in before}
               /\ \A r \in after : ReflectsInput(r, tx[w].adapter, tx[w].input)
    ]_vars

\* Reached: a game first stored and then updated to closed by a later upsert
\* (only the update path writes the game's EventLanguage row), final score kept.
C1_Witness ==
  /\ outcome[1] = "ok"
  /\ tx[1].pc = "idle"
  /\ \E r \in db.event :
       /\ r.externalId = "game123"
       /\ r.isLive = 2
       /\ r.mainScore = "102"
       /\ \E l \in db.eventLanguage : l.eventGuid = r.guid

\* C2: no committed state holds two Event rows with the same externalId,
\* whatever the interleaving of concurrent upserts.
C2_NoDuplicateEvents ==
  \A r1, r2 \in db.event : r1.externalId = r2.externalId => r1.guid = r2.guid

\* C3 as stated: at most one committed EventPeriod row per code, and every
\* successful resolution of a code returned the same guid.
C3_SameGuidEveryResolution ==
  /\ \A p1, p2 \in db.eventPeriod : p1.code = p2.code => p1.guid = p2.guid
  /\ \A w1, w2 \in Workers :
       (lastPeriod[w1][1] # Nil /\ lastPeriod[w1][1] = lastPeriod[w2][1])
         => lastPeriod[w1][2] = lastPeriod[w2][2]

\* C3 amended: at most one committed EventPeriod row per code ever exists
\* (rows are never removed or changed), and every resolution made by a
\* transaction that commits returned the guid of that row.
C3_CommittedResolutionsAgree ==
  /\ [](\A p1, p2 \in db.eventPeriod : p1.code = p2.code => p1.guid = p2.guid)
  /\ [][/\ db.eventPeriod \subseteq db'.eventPeriod
        /\ \A w \in Workers :
             Commits(w) =>
               /\ \E p \in db'.eventPeriod : p.code = tx[w].periodCode
               /\ \A p \in db'.eventPeriod :
                    p.code = tx[w].periodCode => p.guid = tx[w].periodGuid
       ]_vars

\* Reached: a transaction that found the code absent is about to insert it
\* while another transaction's row for that code has been committed.
C3_Witness ==
  \E w \in Workers :
    /\ At(w, "createPeriod")
    /\ \E p \in db.eventPeriod : p.code = tx[w].periodCode
    /\ \E o \in Workers \ {w} : outcome[o] = "ok"

\* C4: once a step of an upsert transaction has returned an error, the
\* Transaction call ends in a rollback: it does not report success and the
\* committed tables stay as they were.
C4_ErrorAbortsTransaction ==
  [][\A w \in Workers :
       (tx[w].failed /\ tx'[w].pc = "idle") => (outcome'[w] = "error" /\ db' = db)
    ]_vars

(***************************************************************************)
(* Properties of the stream lifecycle and of the supervisor.               *)
(***************************************************************************)
\* The goroutines of adapter a that are in, or between, connection attempts.
ActiveLoops(a) ==
  {i \in Loops(a) :
     ws[a].loops[i].pc \in {"dial", "subscribe", "confirm", "stream", "sleep"}}

\* C5: while an adapter is running, a StartWebSocketStream call returns the
\* "already running" error and no goroutine is started; and whatever the
\* interleaving of Start (and Stop) calls, at most one runWebSocketStream
\* goroutine of an adapter is ever connecting, streaming or waiting to reconnect.
C5_SingleStream ==
  /\ [](\A a \in CryptoAdapters : Cardinality(ActiveLoops(a)) <= 1)
  /\ [][\A a \in CryptoAdapters :
          ws[a].wsRunning =>
            /\ Len(ws'[a].loops) = Len(ws[a].loops)
            /\ ws'[a].startErr # ws[a].startErr => ws'[a].startErr = AlreadyRunningError
       ]_vars

\* Reached: a Start call was refused while the adapter's goroutine is streaming.
C5_Witness ==
  \E a \in CryptoAdapters :
    /\ ws[a].wsRunning
    /\ ws[a].startErr = AlreadyRunningError
    /\ \E i \in Loops(a) : ws[a].loops[i].pc = "stream"

\* C6: every delay a reconnect loop sleeps for lies between 5s and 60s.
C6_DelayNeverExceedsCap ==
  \A a \in CryptoAdapters : \A i \in Loops(a) :
    ws[a].loops[i].pc = "sleep" =>
      /\ ws[a].loops[i].reconnectDelay >= InitialReconnectDelay
      /\ ws[a].loops[i].reconnectDelay <= maxReconnectDelay

\* C7: when a subscribed stream fails, the loop sleeps for 5s.
C7_DelayResetAfterSubscribe ==
  [][\A a \in CryptoAdapters : \A i \in Loops(a) :
       (ws[a].loops[i].pc = "stream" /\ ws'[a].loops[i].pc = "sleep")
         => ws'[a].loops[i].reconnectDelay = InitialReconnectDelay
    ]_vars

\* C8: a running adapter whose live connection is lost can go on by itself
\* (its reader, its ticker or its loop has a step to take towards the next
\* dial); it does not wait for Stop or for the cancellation of its context.
C8_ConnectionLossNoticed ==
  \A a \in CryptoAdapters : \A i \in Loops(a) :
    (/\ ws[a].loops[i].pc = "stream"
     /\ ws[a].loops[i].conn = "dead"
     /\ ~StopObserved(a, ws[a].loops[i])
     /\ ~panicked)
      => ENABLED (LoopStep(a) \/ ConnStep(a))

\* C9: after Crawler.Close no poller task begins more than one iteration.
C9_PollersObserveShutdown ==
  \A n \in 1..MaxStarts : \A k \in {"nba", "binance"} : sup.late[n][k] <= 1

\* The dial of connectAndSubscribe failed: no connection was established.
DialFailed(l) == l.pc = "sleep" /\ l.conn = "none"

\* C10: once the Binance dial has failed and runBinanceSync has returned,
\* the REST fallback poller is running.
C10_FallbackOnConnectFailure ==
  (/\ \A n \in 1..MaxStarts : sup.tasks[n].binance # "pending"
   /\ \E i \in Loops("BINANCE") : DialFailed(ws["BINANCE"].loops[i]))
    => \E n \in 1..MaxStarts : sup.tasks[n].binance \in {"sync", "ticker", "poll"}

(***************************************************************************)
(* Properties of the rows an upsert leaves.                                *)
(***************************************************************************)
\* The Event rows with the externalId of worker w's upsert, after this step.
Upserted(w) == EventsByExternalID(db', ExternalID(tx[w].adapter, tx[w].input))

\* The EventLanguage rows of event guid g in the default language, after this step.
LanguageRows(g) ==
  {l \in db'.eventLanguage : l.eventGuid = g /\ l.languageGuid = DefaultLanguage}

\* C12: a successful upsert of a game whose provider status is "closed"
\* leaves the game's Event with isLive = 2 and isOnline = true, whether the
\* game was stored before or is seen for the first time.
C12_ClosedGameFinishedAndOnline ==
  [][\A w \in Workers :
       (Commits(w) /\ tx[w].adapter = "NBA" /\ tx[w].input.status = "closed")
         => /\ Upserted(w) # {}
            /\ \A r \in Upserted(w) : r.isLive = 2 /\ r.isOnline = TRUE
    ]_vars

\* C13: after every successful upsert, on the create and on the update path
\* of every adapter, exactly one EventLanguage row exists for the Event's
\* guid and the default language, and its title is the one derived from the
\* input of that upsert.
C13_OneLanguageRowPerEvent ==
  [][\A w \in Workers :
       Commits(w) =>
         \A r \in Upserted(w) :
           /\ Cardinality(LanguageRows(r.guid)) = 1
           /\ \A l \in LanguageRows(r.guid) :
                l.title = EventTitle(tx[w].adapter, tx[w].input)
    ]_vars

\* Worker w's committing upsert is a Binance tick that found no Event.
BinanceCreates(w) ==
  /\ Commits(w)
  /\ tx[w].adapter = "BINANCE"
  /\ tx[w].existing = Nil
  /\ EventsByExternalID(db, "BINANCE_" \o tx[w].input.symbol) = {}

\* The created Event is the only one for the tick's symbol, it is live, and
\* it has exactly one EventLanguage row, titled "<symbol> Price".
CreatedFromTick(w, r) ==
  /\ Cardinality(EventsByExternalID(db', "BINANCE_" \o tx[w].input.symbol)) = 1
  /\ r.isLive = 0
  /\ r.stage = "LIVE"
  /\ Cardinality(LanguageRows(r.guid)) = 1
  /\ \A l \in LanguageRows(r.guid) :
       /\ l.title = tx[w].input.symbol \o " Price"
       /\ tx[w].input.symbol = "BTCUSDT" => l.title = "BTCUSDT Price"

\* C14 as stated: a Binance tick for a symbol without an Event creates exactly
\* one Event whose mainScore is the tick's price ("65000.50" for the tick
\* {"BTCUSDT","65000.50"}), with isLive = 0 and stage = "LIVE", and exactly
\* one EventLanguage titled "BTCUSDT Price".
C14_PriceStoredInMainScore ==
  [][\A w \in Workers :
       BinanceCreates(w) =>
         /\ EventsByExternalID(db', "BINANCE_" \o tx[w].input.symbol) # {}
         /\ \A r \in EventsByExternalID(db', "BINANCE_" \o tx[w].input.symbol) :
              /\ CreatedFromTick(w, r)
              /\ r.mainScore = tx[w].input.price
    ]_vars

\* The fields of an Event row that identify and classify it.
IdentityFields == {"guid", "externalId", "categoryGuid", "ecosystemGuid", "isSports"}

TeamFields == {"mainTeamGroupGuid", "clusterTeamGroupGuid"}

\* The Event row worker w's upsert found, before and after this step.
Found(w) == {r \in db.event : r.guid = tx[w].existing}
FoundAfter(w) == {r \in db'.event : r.guid = tx[w].existing}

\* C20 as stated: a committing upsert that found an Event leaves the row's
\* guid, externalId, categoryGuid, ecosystemGuid, team references, isOnline
\* and isSports as they were.
C20_UpdateKeepsOtherFields ==
  [][\A w \in Workers :
       (Commits(w) /\ tx[w].existing # Nil) =>
         \A r \in Found(w) :
           \E r2 \in FoundAfter(w) :
             \A f \in IdentityFields \cup TeamFields \cup {"isOnline"} : r2[f] = r[f]
    ]_vars

\* C20 amended: the row's guid, externalId, categoryGuid, ecosystemGuid and
\* isSports are left as they were; the NBA adapter writes the team guids this
\* upsert resolved, the crypto adapters leave the team references alone;
\* isOnline is left as it was unless the game is closed, which sets it.
C20_UpdateKeepsIdentity ==
  [][\A w \in Workers :
       (Commits(w) /\ tx[w].existing # Nil) =>
         \A r \in Found(w) :
           \E r2 \in FoundAfter(w) :
             /\ \A f \in IdentityFields : r2[f] = r[f]
             /\ IF tx[w].adapter = "NBA"
                THEN /\ r2.mainTeamGroupGuid = tx[w].homeGuid
                     /\ r2.clusterTeamGroupGuid = tx[w].awayGuid
                     /\ r2.price = r.price
                     /\ r2.isOnline = (r.isOnline \/ tx[w].input.status = "closed")
                ELSE /\ \A f \in TeamFields \cup {"isOnline"} : r2[f] = r[f]
                     /\ r2.price = tx[w].input.price
    ]_vars

\* Reached: a stored game that is not online is found by an upsert that
\* reports it closed, and the transaction is about to commit.
C20_Witness ==
  /\ At(1, "commit")
  /\ tx[1].adapter = "NBA"
  /\ tx[1].input.status = "closed"
  /\ \E r \in db.event : r.guid = tx[1].existing /\ ~r.isOnline
  /\ \E r \in View(1).event : r.guid = tx[1].existing /\ r.isOnline

(***************************************************************************)
(* Properties of StopWebSocketStream.                                      *)
(***************************************************************************)
\* The adapter s after StartWebSocketStream, left as the call leaves a
\* freshly constructed adapter: running, its stop channel open, no
\* connection, no error, and a new goroutine at its first select.
StartedAsFresh(s) ==
  LET fresh == AfterStart(NewAdapter, "root")
  IN /\ s.wsRunning = fresh.wsRunning
     /\ s.wsStopCh = fresh.wsStopCh
     /\ s.wsConn = fresh.wsConn
     /\ s.startErr = fresh.startErr
     /\ s.loops # << >>
     /\ s.loops[Len(s.loops)] = fresh.loops[1]

\* C19: a StopWebSocketStream call on an adapter that is not running changes
\* no field of the adapter and does not panic, and whenever an adapter is
\* not running, StopWebSocketStream followed by StartWebSocketStream leaves
\* it as StartWebSocketStream leaves a freshly constructed adapter.
C19_StopWhenNotRunningIsNoOp ==
  /\ [][\A a \in CryptoAdapters :
          ws'[a].idleStops # ws[a].idleStops
            => /\ ws'[a] = [ws[a] EXCEPT !.idleStops = @ + 1]
               /\ panicked' = panicked
       ]_vars
  /\ [](\A a \in CryptoAdapters :
          ~ws[a].wsRunning => StartedAsFresh(AfterStart(AfterStop(ws[a]), "root")))

(***************************************************************************)
(* Properties of the supervisor's error handling.                          *)
(***************************************************************************)
\* A goroutine of adapter a ends a connection attempt with an error in this step.
FailsNow(a) ==
  \E i \in Loops(a) :
    /\ i \in DOMAIN ws'[a].loops
    /\ ws[a].loops[i].pc # "sleep"
    /\ ws'[a].loops[i].pc = "sleep"

\* Sync n notes a failure in this step: a symbol it gives up, an item whose
\* upsert failed, or the error it returns.
SyncFailsNow(n) ==
  \/ sup'.sync[n].skipped \ sup.sync[n].skipped # {}
  \/ sup'.sync[n].failed \ sup.sync[n].failed # {}
  \/ sup.sync[n].err = Nil /\ sup'.sync[n].err # Nil

\* C18: no error of an adapter (a failed dial, subscription, read or write, a
\* failed request, decoding or upsert of a sync) makes the supervisor call
\* its shutdown function; a step in which a stream goroutine fails leaves
\* the other adapters and the supervisor as they were, and a step in which a
\* sync notes a failure leaves the streams, the other syncs and the
\* supervisor's tasks as they were.
C18_AdapterErrorsStayLocal ==
  /\ [](~sup.critical)
  /\ [][/\ \A a \in CryptoAdapters :
             FailsNow(a) =>
               /\ \A b \in CryptoAdapters \ {a} : ws'[b] = ws[b]
               /\ sup' = sup
               /\ panicked' = panicked
        /\ \A n \in Syncs :
             SyncFailsNow(n) =>
               /\ ws' = ws
               /\ \A m \in Syncs \ {n} : sup'.sync[m] = sup.sync[m]
               /\ sup'.tasks = sup.tasks
               /\ sup'.closed = sup.closed
               /\ panicked' = panicked
       ]_vars

\* Reached: the Binance goroutine waits to reconnect after an error while
\* the Bybit adapter is streaming, and the shutdown function was not called.
C18_Witness ==
  /\ ~sup.critical
  /\ ~panicked
  /\ \E i \in Loops("BINANCE") : ws["BINANCE"].loops[i].pc = "sleep"
  /\ \E i \in Loops("BYBIT") : ws["BYBIT"].loops[i].pc = "stream"

(***************************************************************************)
(* Properties of the REST poll.                                            *)
(***************************************************************************)
\* The sync sends an HTTP request in this step.
Requests == sup'.sync[1].requests = sup.sync[1].requests + 1

\* The sync is about to send another request for the item it was fetching.
FetchesSameItem ==
  /\ sup'.sync[1].pc = "fetch"
  /\ sup'.sync[1].idx = sup.sync[1].idx

\* The sync gave up on the symbol and went on to the next, or ended.
SkipsSymbol ==
  /\ RestSymbols[sup.sync[1].idx] \in sup'.sync[1].skipped
  /\ sup'.sync[1].idx = sup.sync[1].idx + 1
  /\ IF sup.sync[1].idx < Len(RestSymbols)
     THEN sup'.sync[1].pc = "fetch" /\ sup'.sync[1].attempt = 1
     ELSE sup'.sync[1].pc = "done"

\* C11: in a Binance REST poll a 5xx answer is retried while fewer than 3
\* requests were made for the symbol, a 4xx answer is followed by no further
\* request for the symbol, and in both cases the symbol is skipped and the
\* poll goes on with the remaining symbols.
C11_ClientErrorsNotRetried ==
  /\ [](sup.sync[1].kind = "rest" => sup.sync[1].attempt <= FetchAttempts)
  /\ [][(sup.sync[1].kind = "rest" /\ Requests) =>
          LET status == sup'.sync[1].lastStatus
          IN /\ (status >= 500 /\ sup.sync[1].attempt < FetchAttempts)
                  => FetchesSameItem /\ sup'.sync[1].attempt = sup.sync[1].attempt + 1
             /\ (status >= 500 /\ sup.sync[1].attempt = FetchAttempts) => SkipsSymbol
             /\ (status >= 400 /\ status < 500) => SkipsSymbol
       ]_vars

(***************************************************************************)
(* Properties of the frames of a connection.                               *)
(***************************************************************************)
\* The numbers of the frames whose price is stored for adapter a's symbol.
StoredSeq(d, a) ==
  {n \in 1..MaxFrames :
     \E r \in EventsByExternalID(d, a \o "_BTCUSDT") : r.price = TickPrice(n)}

\* C15: the frames of a connection reach handleWebSocketMessage in the order
\* they were received, a frame is taken only when the upsert of the frame
\* before it has returned, and the price stored for the symbol is never
\* replaced by the price of an earlier frame.
C15_TicksAppliedInReceiptOrder ==
  [][\A a \in CryptoAdapters :
       /\ \A i \in Loops(a) :
            ws'[a].loops[i].frame # ws[a].loops[i].frame
              => /\ ws'[a].loops[i].frame.seq > ws[a].loops[i].frame.seq
                 /\ ~ws[a].loops[i].handling
                 /\ At(i, "idle")
       /\ \A m \in StoredSeq(db, a) : \A n \in StoredSeq(db', a) : n >= m
    ]_vars

\* Reached: the upsert of ticker frame 1 is running while ticker frame 2
\* waits in messageCh.
C15_Witness ==
  \E a \in CryptoAdapters : \E i \in Loops(a) :
    /\ ws[a].loops[i].handling
    /\ ws[a].loops[i].frame = [seq |-> 1, kind |-> "ticker"]
    /\ ws[a].loops[i].inbox = <<[seq |-> 2, kind |-> "ticker"]>>
    /\ ~At(i, "idle")

\* C16: when an upsert fails, only its input is dropped.  A stream goroutine
\* whose handleWebSocketMessage returns stays where it was, on the same
\* connection and with the same frames waiting, and takes the next frame;
\* the REST poll and the NBA sync note the failure and go on with the next
\* symbol or game.
C16_FailedUpsertDropsOnlyItsInput ==
  /\ [](\A a \in CryptoAdapters : \A i \in Loops(a) :
          (/\ ws[a].loops[i].pc = "stream"
           /\ ~ws[a].loops[i].handling
           /\ ws[a].loops[i].inbox # << >>
           /\ ~panicked)
            => ENABLED TakeMessage(a, i))
  /\ [][/\ \A a \in CryptoAdapters : \A i \in Loops(a) :
             (ws[a].loops[i].handling /\ ~ws'[a].loops[i].handling)
               => ws'[a].loops[i] = [ws[a].loops[i] EXCEPT !.handling = FALSE]
        /\ (sup.sync[1].pc = "upsert" /\ sup'.sync[1].pc # "upsert")
             => /\ sup'.sync[1].idx = sup.sync[1].idx + 1
                /\ sup'.sync[1].err = Nil
                /\ outcome[1] # "ok" =>
                     SyncItems(sup.sync[1])[sup.sync[1].idx] \in sup'.sync[1].failed
                /\ IF sup.sync[1].idx < Len(SyncItems(sup.sync[1]))
                   THEN sup'.sync[1].pc = IF sup.sync[1].kind = "rest" THEN "fetch" ELSE "process"
                   ELSE sup'.sync[1].pc = "done"
       ]_vars

\* Reached: the upsert of ticker frame 1 has failed, and the upsert of
\* frame 2, taken from messageCh after it on the same connection, is running.
C16_Witness ==
  \E a \in CryptoAdapters : \E i \in Loops(a) :
    /\ ws[a].loops[i].frame = [seq |-> 2, kind |-> "ticker"]
    /\ ws[a].loops[i].handling
    /\ ws[a].loops[i].pc = "stream"
    /\ ws[a].loops[i].conn = "open"
    /\ ws[a].loops[i].reconnectDelay = InitialReconnectDelay
    /\ outcome[i] = "error"
    /\ At(i, "getPeriod")

\* C17: a frame of the read loop that is a control or ack message, or that
\* does not decode, writes nothing to the store, starts no transaction and
\* leaves the goroutine on the same connection in the read loop: only the
\* frame is gone from messageCh.
C17_OtherFramesIgnored ==
  [][\A a \in CryptoAdapters : \A i \in Loops(a) :
       (/\ ws'[a].loops[i].frame # ws[a].loops[i].frame
        /\ ws'[a].loops[i].frame.kind # "ticker")
         => /\ db' = db
            /\ tx' = tx
            /\ ws[a].loops[i].inbox # << >>
            /\ ws'[a].loops[i] = [ws[a].loops[i] EXCEPT !.frame = Head(ws[a].loops[i].inbox),
                                                        !.inbox = Tail(@)]
    ]_vars

\* Reached: a frame that does not decode was handled after another frame,
\* and the goroutine is in the read loop on its open connection.
C17_Witness ==
  \E a \in CryptoAdapters : \E i \in Loops(a) :
    /\ ws[a].loops[i].frame = [seq |-> 2, kind |-> "undecodable"]
    /\ ws[a].loops[i].pc = "stream"
    /\ ws[a].loops[i].conn = "open"

(***************************************************************************)
(* Properties of the sports status mapping.                                *)
(***************************************************************************)
\* Status strings the provider does not document, among them a known status
\* in another letter case and the empty string.
UnrecognizedStatuses == {"postponed", "cancelled", "Scheduled", "CLOSED", ""}

\* The Event rows worker w's running transaction has inserted.
InsertedEvents(w) ==
  {tx[w].writes[i].row :
     i \in {j \in 1..Len(tx[w].writes) :
              tx[w].writes[j].kind = "insert" /\ tx[w].writes[j].table = "event"}}

\* C21: the status mapping is total: "scheduled" gives isLive 1 and stage
\* "Q1", "inprogress" gives isLive 0 and stage "Q1", "closed" gives isLive 2,
\* every other status string gives what "scheduled" gives; and the Event a
\* game's upsert inserts carries the isLive and stage of the game's status.
C21_StatusMappingTotal ==
  /\ determineGameStatus("scheduled") = [isLive |-> 1, stage |-> "Q1"]
  /\ determineGameStatus("inprogress") = [isLive |-> 0, stage |-> "Q1"]
  /\ determineGameStatus("closed").isLive = 2
  /\ \A st \in (Statuses \cup UnrecognizedStatuses) \ {"scheduled", "inprogress", "closed"} :
       determineGameStatus(st) = determineGameStatus("scheduled")
  /\ \A w \in Workers :
       tx[w].adapter = "NBA" =>
         \A r \in InsertedEvents(w) :
           /\ r.isLive = ExpectedIsLive(tx[w].input.status)
           /\ tx[w].input.status # "closed" => r.stage = "Q1"

\* Reached: a game with a status the provider does not document was inserted
\* with the isLive and stage of a scheduled game.
C21_Witness ==
  /\ At(1, "rereadEvent")
  /\ tx[1].adapter = "NBA"
  /\ tx[1].input.status = "postponed"
  /\ \E r \in InsertedEvents(1) : r.isLive = 1 /\ r.stage = "Q1"

(***************************************************************************)
(* Properties of the decode step.                                          *)
(***************************************************************************)
\* C22: whatever the exchange and the layout of its ticker update, the
\* decode step hands the upsert the tick of the market and price the update
\* reports: the three adapters decode their updates of one market at one
\* price to one and the same tick, {"BTCUSDT", "50000.12"} for BTCUSDT at
\* 50000.12.
C22_DecodeEquivalence ==
  /\ [](\A m \in Markets : \A p \in Prices :
         \A a \in CryptoAdapters : \A layout \in WireLayouts(a) :
           /\ Decode(a, TickerMessage(a, layout, m, p)) = [symbol |-> MarketSymbol(m), price |-> p]
           /\ (MarketSymbol(m) = "BTCUSDT" /\ p = "50000.12")
                => Decode(a, TickerMessage(a, layout, m, p))
                     = [symbol |-> "BTCUSDT", price |-> "50000.12"])
  /\ [][(~wire.decoded /\ wire'.decoded /\ wire.symbol # Nil)
          => /\ tx'[1].adapter = wire.adapter
             /\ tx'[1].input = [symbol |-> wire.symbol, price |-> wire.price]
             /\ tx'[1].pc = "getEvent"
       ]_vars

\* Reached: the OKX update of BTC-USDT at 50000.12, carrying the instrument
\* in its arg only, was decoded and the upsert of {"BTCUSDT", "50000.12"}
\* has begun.
C22_Witness ==
  /\ wire.decoded
  /\ wire.adapter = "OKX"
  /\ wire.msg = TickerMessage("OKX", "argOnly",
                              [base |-> <<"B", "T", "C">>, quote |-> <<"U", "S", "D", "T">>],
                              "50000.12")
  /\ At(1, "getEvent")
  /\ tx[1].input = [symbol |-> "BTCUSDT", price |-> "50000.12"]

(***************************************************************************)
(* Properties of restarting an adapter.                                    *)
(***************************************************************************)
\* C23: whatever the sequence of StartWebSocketStream and StopWebSocketStream
\* calls on an adapter, no StopWebSocketStream call closes a stop channel
\* that is closed already (which is a runtime panic).
C23_StopNeverClosesTwice ==
  [][\A a \in CryptoAdapters :
       (ws[a].wsRunning /\ ~ws'[a].wsRunning) \/ (~panicked /\ panicked')
         => ws[a].wsStopCh = "open" /\ ~panicked'
    ]_vars

\* C24: while the context of its callers is not cancelled, an adapter whose
\* wsRunning is true (StartWebSocketStream returned nil, also after an
\* earlier StopWebSocketStream) has a runWebSocketStream goroutine that has
\* not exited.
C24_RunningHasConnectLoop ==
  \A a \in CryptoAdapters :
    (ws[a].wsRunning /\ ~cancelled /\ ~panicked)
      => \E i \in Loops(a) : ws[a].loops[i].pc # "done"

(***************************************************************************)
(* Properties of the connection of a connectAndSubscribe call.             *)
(***************************************************************************)
\* Goroutine l is inside a connectAndSubscribe call.
InCall(l) == l.pc \in {"dial", "subscribe", "confirm", "stream"}

\* C25: whenever connectAndSubscribe of the Binance or OKX adapter returns
\* after it dialed a connection, with nil or with an error, conn.Close() has
\* been called on that connection.
C25_ConnectionClosedOnReturn ==
  [][\A a \in {"BINANCE", "OKX"} : \A i \in Loops(a) :
       (/\ InCall(ws[a].loops[i])
        /\ ~InCall(ws'[a].loops[i])
        /\ ws[a].loops[i].conn # "none")
         => ws'[a].loops[i].connClosed
    ]_vars

\* C26: the reader goroutine of a connection of the Binance or OKX adapter
\* has returned when runWebSocketStream dials the next connection: no reader
\* of an earlier connection is running after a reconnect.
C26_ReaderTerminates ==
  [][\A a \in {"BINANCE", "OKX"} : \A i \in Loops(a) :
       (ws[a].loops[i].pc = "select" /\ ws'[a].loops[i].pc = "dial")
         => ws[a].loops[i].reader # "reading"
    ]_vars

\* C27: an OKX goroutine whose confirmation read has failed, or whose
\* confirmation timeout has fired, before the subscriptions were confirmed
\* has a step that takes it out of the confirmation loop.
C27_ConfirmationLoopIsLeft ==
  \A i \in Loops("OKX") :
    (/\ ws["OKX"].loops[i].pc = "confirm"
     /\ ws["OKX"].loops[i].conn # "open"
     /\ ~StopObserved("OKX", ws["OKX"].loops[i])
     /\ ~panicked)
      => ENABLED (\E reply \in {"subscribe", "error", "pong", "undecodable", "readError",
                                "repeatedRead"} :
                    Confirm("OKX", i, reply) /\ ws'["OKX"].loops[i].pc # "confirm")

\* C28: a subscribed Binance connection that the peer keeps open, on which
\* messages arrive and the heartbeat is written, gets no read error.
C28_HealthyStreamKeepsReading ==
  \A i \in Loops("BINANCE") :
    (ws["BINANCE"].loops[i].pc = "stream" /\ ws["BINANCE"].loops[i].conn = "open")
      => ~ws["BINANCE"].loops[i].errCh

(***************************************************************************)
(* Referential integrity of the committed rows.                            *)
(***************************************************************************)
\* Guid g is the sentinel "0" or the guid of a committed TeamGroup row.
TeamResolves(d, g) == g = "0" \/ \E t \in d.teamGroup : t.guid = g

\* C29: in every committed state the eventPeriodGuid of each Event the
\* pipeline wrote is the guid of a committed EventPeriod row and each of its
\* team references is "0" or the guid of a committed TeamGroup row; an upsert
\* that ends with an error leaves the committed tables as they were.
C29_ReferencesResolve ==
  /\ [](\A r \in db.event \ ApiEvents(db) :
          /\ \E p \in db.eventPeriod : p.guid = r.eventPeriodGuid
          /\ TeamResolves(db, r.mainTeamGroupGuid)
          /\ TeamResolves(db, r.clusterTeamGroupGuid))
  /\ [][\A w \in Workers :
          (tx[w].pc # "idle" /\ tx'[w].pc = "idle" /\ outcome'[w] = "error") => db' = db
       ]_vars

\* Reached: a game is stored with the guids of its two committed teams and
\* of its committed period, and a later upsert, which had written rows of
\* its own, has been rolled back.
C29_Witness ==
  /\ At(1, "idle")
  /\ outcome[1] = "error"
  /\ lastPeriod[1][2] \notin {p.guid : p \in db.eventPeriod} \cup {Nil}
  /\ \E r \in db.event :
       /\ r.mainTeamGroupGuid # "0"
       /\ r.clusterTeamGroupGuid # "0"
       /\ r.mainTeamGroupGuid # r.clusterTeamGroupGuid
       /\ TeamResolves(db, r.mainTeamGroupGuid)
       /\ TeamResolves(db, r.clusterTeamGroupGuid)

(***************************************************************************)
(* C30: a verification code is single-use.  For every entry SendCode       *)
(* issued at most one VerifyCode call returns true, and a VerifyCode call  *)
(* that deletes never removes an entry other than the one it read.         *)
(***************************************************************************)
Deletes(c) ==
  /\ vcm.calls[c].pc = "delete"
  /\ vcm'.calls[c].pc = "idle"

C30_CodeIsSingleUse ==
  /\ [](\A k \in 1 .. MaxCodes : vcm.accepted[k] <= 1)
  /\ [][\A c \in Callers :
          Deletes(c) => vcm.codes[Target] \in {NoEntry, vcm.calls[c].entry}]_vars

====
